---------------------------- MODULE Spec2Model ----------------------------
(***************************************************************************)
(* Model of the two text tools of the ancient-chinese repository:          *)
(*   - the Normalizer, func Format of the format tool, and                 *)
(*   - the Compiler, func ConvertToTex of the tex tool.                    *)
(*                                                                         *)
(* A line of text is a sequence of code points ("runes").  A rune is       *)
(* written as a short string:                                              *)
(*   "SP"   U+0020 space             "IDSP" U+3000 ideographic space       *)
(*   "LQ"   U+201C opening quote     "RQ"   U+201D closing quote           *)
(*   "DOT"  U+3002 full stop         "QM"   U+FF1F question mark           *)
(*   "EM"   U+FF01 exclamation mark  "RP"   U+FF09 closing parenthesis     *)
(*   "LP"   U+FF08 opening parenth.  "RB"   U+300B closing bracket         *)
(*   "+", "-", "|"  the ASCII marks  "a", "b"  any other character         *)
(***************************************************************************)
EXTENDS Integers, Sequences, FiniteSets, TLC

VARIABLES
    pc,          \* "run": in the scanner loop; "done": returned; "fatal": log.Fatal exited
    input,       \* the raw lines inputScanner has returned so far
    output,      \* the lines written to outputFile so far
    title,       \* var title
    author,      \* var author
    buffer,      \* bytes.Buffer of Format: the pending paragraph
    inQuote,     \* Format: inQuote
    inTable,     \* Format: inTable
    isSpace,     \* Format: isSpace
    couldEnd,    \* Format: couldEnd
    lineNumber,  \* Format: lineNumber
    written,     \* every rune buffer.Write has been given, in order
    sectionTypeToCount,  \* ConvertToTex: sectionTypeToCount
    sectionTypeToTitle,  \* ConvertToTex: sectionTypeToTitle
    tableRows,   \* ConvertToTex: tableRows, while pc = "table" (the inner loop)
    textLeft,    \* ReplaceCommentWithScript: text, what is left to look at
    stage,       \* main: the tool that runs, "format" or "tex"; "" outside main;
                 \* "replace" where ReplaceCommentWithScript is looked at alone
    args,        \* main: flag.Args(), the files named on the command line
    argIndex,    \* main: the place in args of the file the loop takes next
    proc,        \* main: "main": in the loop; "returned"; "exited": log.Fatal
    outcomes     \* what became of each file the loop has taken, in order

vars == <<pc, input, output, title, author, buffer, inQuote, inTable,
          isSpace, couldEnd, lineNumber, written,
          sectionTypeToCount, sectionTypeToTitle, tableRows, textLeft,
          stage, args, argIndex, proc, outcomes>>

\* The variables of ConvertToTex that Format does not have, and the reverse.
texVars == <<sectionTypeToCount, sectionTypeToTitle, tableRows, textLeft>>

formatVars == <<buffer, inQuote, inTable, isSpace, couldEnd, lineNumber, written>>

\* The variables of func main of either tool.
mainVars == <<stage, args, argIndex, proc, outcomes>>

\* One call of Format or ConvertToTex is looked at, outside main.
NoMain ==
    /\ stage = ""
    /\ args = <<>>
    /\ argIndex = 0
    /\ proc = ""
    /\ outcomes = <<>>

(***************************************************************************)
(* Bounds of the model.                                                    *)
(***************************************************************************)
\* Input lines one run of Format reads.
MaxLines == 4

\* Input lines one run of either tool reads where its termination is looked at.
MaxStageLines == 4

\* Input lines one run of ConvertToTex reads, for each of its sets of lines.
MaxSectionLines == 5

MaxTableLines == 6

MaxCommentLines == 4

MaxMarkerLines == 5

MaxFatalLines == 6

\* Files named on one command line.
MaxArgs == 2

(***************************************************************************)
(* Text helpers.                                                           *)
(***************************************************************************)
startQuote == "LQ"

endQuote == "RQ"

kTableMarker == <<"-", "-", "-">>

\* unicode.IsSpace on the runes of the model.
IsSpace(r) == r \in {"SP", "IDSP"}

\* Mutant of IsTerminal: a paragraph may end after a plain glyph too.
IsTerminalOrPlain(r) == r \in {"DOT", "RQ", "QM", "EM", "RP", "RB", "a"}

\* The runes after which a paragraph may end (the switch of Format).
IsTerminal(r) == r \in {"DOT", "RQ", "QM", "EM", "RP", "RB"}

RECURSIVE TrimLeft(_)
TrimLeft(s) ==
    IF s # <<>> /\ IsSpace(Head(s)) THEN TrimLeft(Tail(s)) ELSE s

RECURSIVE TrimRight(_)
TrimRight(s) ==
    IF s # <<>> /\ IsSpace(s[Len(s)])
    THEN TrimRight(SubSeq(s, 1, Len(s) - 1))
    ELSE s

\* strings.TrimSpace
TrimSpace(s) == TrimRight(TrimLeft(s))

\* strings.HasPrefix(line, "+")
HasPlusPrefix(line) == line # <<>> /\ Head(line) = "+"

(***************************************************************************)
(* The Normalizer: Format.                                                 *)
(***************************************************************************)
\* Mutant of ScanRune: the quote glyph is written as it was read; only the
\* flag flips.
ScanRuneKeepGlyph(sc, r) ==
    IF IsSpace(r) /\ sc.isSpace
    THEN [sc EXCEPT !.couldEnd = FALSE]
    ELSE LET sp == IsSpace(r)
             r1 == IF sp THEN "SP" ELSE r
             q  == r1 = startQuote \/ r1 = endQuote
         IN  [buffer   |-> Append(sc.buffer, r1),
              written  |-> Append(sc.written, r1),
              inQuote  |-> IF q THEN ~sc.inQuote ELSE sc.inQuote,
              isSpace  |-> IF sp THEN TRUE ELSE sc.isSpace,
              couldEnd |-> IsTerminal(r1)]

\* Mutant of ScanRune: a skipped whitespace rune clears isSpace.
ScanRuneToggleSpace(sc, r) ==
    IF IsSpace(r) /\ sc.isSpace
    THEN [sc EXCEPT !.couldEnd = FALSE, !.isSpace = FALSE]
    ELSE LET sp == IsSpace(r)
             r1 == IF sp THEN "SP" ELSE r
             q  == r1 = startQuote \/ r1 = endQuote
             r2 == IF q THEN (IF sc.inQuote THEN endQuote ELSE startQuote) ELSE r1
         IN  [buffer   |-> Append(sc.buffer, r2),
              written  |-> Append(sc.written, r2),
              inQuote  |-> IF q THEN ~sc.inQuote ELSE sc.inQuote,
              isSpace  |-> IF sp THEN TRUE ELSE sc.isSpace,
              couldEnd |-> IsTerminal(r2)]

\* Mutant of ScanRune: only the opening glyph is taken for a quote glyph.
ScanRuneOpenOnly(sc, r) ==
    IF IsSpace(r) /\ sc.isSpace
    THEN [sc EXCEPT !.couldEnd = FALSE]
    ELSE LET sp == IsSpace(r)
             r1 == IF sp THEN "SP" ELSE r
             q  == r1 = startQuote
             r2 == IF q THEN (IF sc.inQuote THEN endQuote ELSE startQuote) ELSE r1
         IN  [buffer   |-> Append(sc.buffer, r2),
              written  |-> Append(sc.written, r2),
              inQuote  |-> IF q THEN ~sc.inQuote ELSE sc.inQuote,
              isSpace  |-> IF sp THEN TRUE ELSE sc.isSpace,
              couldEnd |-> IsTerminal(r2)]

\* One iteration of `for _, runeValue := range line` on the scan state
\* sc = [buffer, inQuote, isSpace, couldEnd, written].
ScanRune(sc, r) ==
    IF IsSpace(r) /\ sc.isSpace
    THEN [sc EXCEPT !.couldEnd = FALSE]
    ELSE LET sp == IsSpace(r)
             r1 == IF sp THEN "SP" ELSE r
             q  == r1 = startQuote \/ r1 = endQuote
             r2 == IF q THEN (IF sc.inQuote THEN endQuote ELSE startQuote) ELSE r1
         IN  [buffer   |-> Append(sc.buffer, r2),
              written  |-> Append(sc.written, r2),
              inQuote  |-> IF q THEN ~sc.inQuote ELSE sc.inQuote,
              isSpace  |-> IF sp THEN TRUE ELSE sc.isSpace,
              couldEnd |-> IsTerminal(r2)]

RECURSIVE ScanLine(_, _)
ScanLine(sc, line) ==
    IF line = <<>> THEN sc ELSE ScanLine(ScanRune(sc, Head(line)), Tail(line))

\* The buffer is printed before log.Fatal when it holds something.
FlushPending(s) ==
    IF Len(s.buffer) > 0 THEN Append(s.output, s.buffer) ELSE s.output

\* buffer.Len() > 0 || inQuote
Pending(s) == Len(s.buffer) > 0 \/ s.inQuote

\* Mutant of LineKind: the fence and the '+' prefix are looked at before the
\* title and the author.
LineKindBodyFirst(s, line) ==
    IF Len(line) = 0 THEN "blank"
    ELSE IF line = kTableMarker THEN "fence"
    ELSE IF s.inTable \/ HasPlusPrefix(line) THEN "verbatim"
    ELSE IF Len(s.title) = 0 THEN "title"
    ELSE IF Len(s.author) = 0 THEN "author"
    ELSE "scan"

\* Which branch of the loop body a trimmed line takes in state s.
LineKind(s, line) ==
    IF Len(line) = 0 THEN "blank"
    ELSE IF Len(s.title) = 0 THEN "title"
    ELSE IF Len(s.author) = 0 THEN "author"
    ELSE IF line = kTableMarker THEN "fence"
    ELSE IF s.inTable \/ HasPlusPrefix(line) THEN "verbatim"
    ELSE "scan"

\* line == "---": the table mode is toggled, then the pending check.
OnFence(s, line) ==
    IF Pending(s)
    THEN [s EXCEPT !.inTable = ~s.inTable, !.output = FlushPending(s),
                   !.pc = "fatal"]
    ELSE [s EXCEPT !.inTable = ~s.inTable, !.output = Append(s.output, line)]

\* Mutant of OnVerbatim: the pending check is left out.
OnVerbatimNoCheck(s, line) == [s EXCEPT !.output = Append(s.output, line)]

\* inTable || strings.HasPrefix(line, "+"): the line is copied, unless
\* something is pending.
OnVerbatim(s, line) ==
    IF Pending(s)
    THEN [s EXCEPT !.output = FlushPending(s), !.pc = "fatal"]
    ELSE [s EXCEPT !.output = Append(s.output, line)]

\* Mutant of ShouldFlush: every scanned line ends a paragraph.
ShouldFlushAlways(sc) == TRUE

\* if couldEnd && !inQuote
ShouldFlush(sc) == sc.couldEnd /\ ~sc.inQuote

\* The rune loop over the line, then the flush of a paragraph that may end.
OnScan(s, line) ==
    LET sc == ScanLine([buffer |-> s.buffer, written |-> s.written,
                        inQuote |-> s.inQuote, isSpace |-> s.isSpace,
                        couldEnd |-> s.couldEnd], line)
        m  == [s EXCEPT !.buffer = sc.buffer, !.written = sc.written,
                        !.inQuote = sc.inQuote, !.isSpace = sc.isSpace,
                        !.couldEnd = sc.couldEnd]
    IN  IF ShouldFlush(sc)
        THEN [m EXCEPT !.output = Append(s.output, sc.buffer), !.buffer = <<>>]
        ELSE m

\* The body of `for inputScanner.Scan()` on one raw line.
FormatLine(s, raw) ==
    LET line == TrimSpace(raw)
        n    == [s EXCEPT !.lineNumber = s.lineNumber + 1]
        kind == LineKind(s, line)
    IN  CASE kind = "blank"    -> n
          [] kind = "title"    -> [n EXCEPT !.output = Append(s.output, line),
                                            !.title = line]
          [] kind = "author"   -> [n EXCEPT !.output = Append(s.output, line),
                                            !.author = line]
          [] kind = "fence"    -> OnFence(n, line)
          [] kind = "verbatim" -> OnVerbatim(n, line)
          [] OTHER             -> OnScan(n, line)

\* Mutant of FormatEnd: the check after the loop is left out.
FormatEndNoCheck(s) == [s EXCEPT !.pc = "done"]

\* After the loop: inputScanner.Scan() returned false.
FormatEnd(s) ==
    IF Pending(s)
    THEN [s EXCEPT !.output = FlushPending(s), !.pc = "fatal"]
    ELSE [s EXCEPT !.pc = "done"]

\* The locals of Format as the loop is entered.
FormatStart ==
    [pc |-> "run", output |-> <<>>, title |-> <<>>, author |-> <<>>,
     buffer |-> <<>>, inQuote |-> FALSE, inTable |-> FALSE, isSpace |-> FALSE,
     couldEnd |-> FALSE, lineNumber |-> 0, written |-> <<>>]

\* Format on a whole file: the loop, left at a fatal error, then the end check.
RECURSIVE FormatFrom(_, _)
FormatFrom(s, lines) ==
    IF s.pc # "run" THEN s
    ELSE IF lines = <<>> THEN FormatEnd(s)
    ELSE FormatFrom(FormatLine(s, Head(lines)), Tail(lines))

Format(lines) == FormatFrom(FormatStart, lines)

\* The current state of Format as a record.
Cur ==
    [pc |-> pc, output |-> output, title |-> title, author |-> author,
     buffer |-> buffer, inQuote |-> inQuote, inTable |-> inTable,
     isSpace |-> isSpace, couldEnd |-> couldEnd, lineNumber |-> lineNumber,
     written |-> written]

Becomes(s) ==
    /\ pc' = s.pc
    /\ output' = s.output
    /\ title' = s.title
    /\ author' = s.author
    /\ buffer' = s.buffer
    /\ inQuote' = s.inQuote
    /\ inTable' = s.inTable
    /\ isSpace' = s.isSpace
    /\ couldEnd' = s.couldEnd
    /\ lineNumber' = s.lineNumber
    /\ written' = s.written
    /\ UNCHANGED texVars
    /\ UNCHANGED mainVars

\* The raw lines the input file of Format is made of.
Lines ==
    { <<"IDSP">>,
      kTableMarker,
      <<"+", "a">>,
      <<"a">>,
      <<"a", "DOT">>,
      <<"a", "SP", "IDSP", "a", "DOT">>,
      <<"SP", "a", "IDSP", "a", "SP">>,
      <<"LQ", "a", "DOT">>,
      <<"RQ">>,
      <<"a", "LQ">>,
      <<"RQ", "a", "DOT", "RQ">>,
      <<"LP", "a", "DOT">> }

\* inputScanner.Scan() returned `raw`, and the loop body took branch `kind`.
Read(raw, kind) ==
    /\ LineKind(Cur, TrimSpace(raw)) = kind
    /\ Becomes(FormatLine(Cur, raw))
    /\ input' = Append(input, raw)

\* len(line) == 0: continue
SkipBlank ==
    /\ pc = "run"
    /\ lineNumber < MaxLines
    /\ \E raw \in Lines : Read(raw, "blank")

\* len(title) == 0
ReadTitle ==
    /\ pc = "run"
    /\ lineNumber < MaxLines
    /\ \E raw \in Lines : Read(raw, "title")

\* len(author) == 0
ReadAuthor ==
    /\ pc = "run"
    /\ lineNumber < MaxLines
    /\ \E raw \in Lines : Read(raw, "author")

\* line == "---"
ReadFence ==
    /\ pc = "run"
    /\ lineNumber < MaxLines
    /\ \E raw \in Lines : Read(raw, "fence")

\* inTable || strings.HasPrefix(line, "+")
ReadVerbatim ==
    /\ pc = "run"
    /\ lineNumber < MaxLines
    /\ \E raw \in Lines : Read(raw, "verbatim")

\* the rune loop, then the flush when the paragraph may end
ReadBody ==
    /\ pc = "run"
    /\ lineNumber < MaxLines
    /\ \E raw \in Lines : Read(raw, "scan")

EndOfInput ==
    /\ pc = "run"
    /\ Becomes(FormatEnd(Cur))
    /\ UNCHANGED input

Init ==
    /\ input = <<>>
    /\ pc = FormatStart.pc
    /\ output = FormatStart.output
    /\ title = FormatStart.title
    /\ author = FormatStart.author
    /\ buffer = FormatStart.buffer
    /\ inQuote = FormatStart.inQuote
    /\ inTable = FormatStart.inTable
    /\ isSpace = FormatStart.isSpace
    /\ couldEnd = FormatStart.couldEnd
    /\ lineNumber = FormatStart.lineNumber
    /\ written = FormatStart.written
    /\ sectionTypeToCount = [i \in {} |-> 0]
    /\ sectionTypeToTitle = [i \in {} |-> <<>>]
    /\ tableRows = <<>>
    /\ textLeft = <<>>
    /\ NoMain

Next ==
    \/ SkipBlank
    \/ ReadTitle
    \/ ReadAuthor
    \/ ReadFence
    \/ ReadVerbatim
    \/ ReadBody
    \/ EndOfInput

Spec == Init /\ [][Next]_vars

(***************************************************************************)
(* The Compiler: ConvertToTex.  The output is a sequence of items, one for *)
(* each write to outputFile: k names the construct, n is its number (the   *)
(* section type, the number of columns), t its text and u its second text. *)
(***************************************************************************)
kSectionNames ==
    <<"part", "chapter", "section", "subsection", "subsubsection",
      "subsubsubsection", "paragraph", "subparagraph">>

\* The indices of [len(kSectionNames)]int.
SectionTypes == 0..(Len(kSectionNames) - 1)

kCommentStart == "LP"

kCommentEnd == "RP"

Item(k, n, t, u) == [k |-> k, n |-> n, t |-> t, u |-> u]

\* strings.Index(text, r) for a one-rune r: the 0-based place of the first r,
\* or -1.
Index(text, r) ==
    IF \E i \in 1..Len(text) : text[i] = r
    THEN (CHOOSE i \in 1..Len(text) :
              text[i] = r /\ \A j \in 1..(i - 1) : text[j] # r) - 1
    ELSE -1

\* text[from:to]
Slice(text, from, to) == SubSeq(text, from + 1, to)

\* The loop of ParseTitleLine that counts the leading '+'.
RECURSIVE NumOfPlus(_)
NumOfPlus(text) ==
    IF text # <<>> /\ Head(text) = "+" THEN 1 + NumOfPlus(Tail(text)) ELSE 0

\* Mutant of ParseTitleLine: the page is cleared before a part as well.
ParseTitleLineBreakParts(text) ==
    LET numOfPlus == NumOfPlus(text)
    IN  IF numOfPlus < 1 \/ numOfPlus > Len(kSectionNames)
        THEN [ok |-> FALSE, sectionType |-> 0, start |-> <<>>, outTitle |-> <<>>]
        ELSE [ok |-> TRUE,
              sectionType |-> numOfPlus - 1,
              start |-> IF numOfPlus <= 2
                        THEN <<"cleardoublepage", "phantomsection">>
                        ELSE <<"phantomsection">>,
              outTitle |-> Slice(text, numOfPlus, Len(text))]

\* ok is false where ParseTitleLine calls log.Fatalf.
ParseTitleLine(text) ==
    LET numOfPlus == NumOfPlus(text)
    IN  IF numOfPlus < 1 \/ numOfPlus > Len(kSectionNames)
        THEN [ok |-> FALSE, sectionType |-> 0, start |-> <<>>, outTitle |-> <<>>]
        ELSE [ok |-> TRUE,
              sectionType |-> numOfPlus - 1,
              start |-> IF numOfPlus = 2
                        THEN <<"cleardoublepage", "phantomsection">>
                        ELSE <<"phantomsection">>,
              outTitle |-> Slice(text, numOfPlus, Len(text))]

\* Mutant of ReplaceFrom: a comment that is not closed is written as it is.
RECURSIVE ReplaceFromLenient(_, _)
ReplaceFromLenient(buf, text) ==
    LET start == Index(text, kCommentStart)
        end   == Index(text, kCommentEnd)
    IN  IF start = -1 THEN [ok |-> TRUE, text |-> buf \o text]
        ELSE LET b1 == IF start > 0 THEN buf \o Slice(text, 0, start) ELSE buf
                 s1 == start + 1
             IN  IF s1 >= end THEN [ok |-> TRUE, text |-> buf \o text]
                 ELSE LET b2   == b1 \o <<"{scriptsize">> \o Slice(text, s1, end)
                                     \o <<"}">>
                          rest == Slice(text, end + 1, Len(text))
                      IN  IF Len(rest) = 0 THEN [ok |-> TRUE, text |-> b2]
                          ELSE ReplaceFromLenient(b2, rest)

\* The loop of ReplaceCommentWithScript with `buf` written so far; ok is
\* false where it calls log.Fatalf.  A comment becomes {\scriptsize ...},
\* written here as the runes "{scriptsize" ... "}".
RECURSIVE ReplaceFrom(_, _)
ReplaceFrom(buf, text) ==
    LET start == Index(text, kCommentStart)
        end   == Index(text, kCommentEnd)
    IN  IF start = -1 THEN [ok |-> TRUE, text |-> buf \o text]
        ELSE LET b1 == IF start > 0 THEN buf \o Slice(text, 0, start) ELSE buf
                 s1 == start + 1
             IN  IF s1 >= end THEN [ok |-> FALSE, text |-> b1]
                 ELSE LET b2   == b1 \o <<"{scriptsize">> \o Slice(text, s1, end)
                                     \o <<"}">>
                          rest == Slice(text, end + 1, Len(text))
                      IN  IF Len(rest) = 0 THEN [ok |-> TRUE, text |-> b2]
                          ELSE ReplaceFrom(b2, rest)

ReplaceCommentWithScript(text) == ReplaceFrom(<<>>, text)

\* strings.Split(row, "|")
RECURSIVE Split(_)
Split(row) ==
    LET i == Index(row, "|")
    IN  IF i = -1 THEN <<row>>
        ELSE <<Slice(row, 0, i)>> \o Split(Slice(row, i + 1, Len(row)))

\* strings.Join(columns, " & "), the separator written as the rune "&".
RECURSIVE Join(_)
Join(columns) ==
    IF Len(columns) = 1 THEN columns[1]
    ELSE columns[1] \o <<"&">> \o Join(Tail(columns))

\* The locals of ConvertToTex as the loop is entered, the headers written.
TexStart ==
    [pc |-> "run",
     output |-> <<Item("preamble", 0, <<>>, <<>>)>>,
     title |-> <<>>,
     author |-> <<>>,
     sectionTypeToCount |-> [i \in SectionTypes |-> 0],
     sectionTypeToTitle |-> [i \in SectionTypes |-> <<>>],
     tableRows |-> <<>>]

\* Mutant of EmitRows: the number of columns is not compared.
RECURSIVE EmitRowsNoCheck(_, _, _)
EmitRowsNoCheck(s, rows, numColumns) ==
    IF rows = <<>> THEN s
    ELSE LET columns == Split(Head(rows))
             first   == numColumns = -1
             nc      == IF first THEN Len(columns) ELSE numColumns
             s1      == IF first
                        THEN [s EXCEPT !.output =
                                 Append(s.output, Item("ltabulary", nc, <<>>, <<>>))]
                        ELSE s
         IN  EmitRowsNoCheck(
                [s1 EXCEPT !.output =
                    Append(s1.output,
                           Item("row", Len(columns), Join(columns), <<>>))],
                Tail(rows), nc)

\* `for _, row := range tableRows` from the rows still to write.
RECURSIVE EmitRows(_, _, _)
EmitRows(s, rows, numColumns) ==
    IF rows = <<>> THEN s
    ELSE LET columns == Split(Head(rows))
             first   == numColumns = -1
             nc      == IF first THEN Len(columns) ELSE numColumns
             s1      == IF first
                        THEN [s EXCEPT !.output =
                                 Append(s.output, Item("ltabulary", nc, <<>>, <<>>))]
                        ELSE s
         IN  IF ~first /\ numColumns # Len(columns)
             THEN [s EXCEPT !.pc = "fatal"]
             ELSE EmitRows(
                    [s1 EXCEPT !.output =
                        Append(s1.output,
                               Item("row", Len(columns), Join(columns), <<>>))],
                    Tail(rows), nc)

\* The table branch once the inner loop has ended: the rows are written.
EmitTable(s) ==
    IF Len(s.tableRows) = 0 THEN [s EXCEPT !.pc = "run"]
    ELSE LET s1 == EmitRows(
                     [s EXCEPT !.pc = "run",
                               !.output = Append(s.output,
                                                 Item("tablehead", 0, <<>>, <<>>))],
                     s.tableRows, -1)
         IN  IF s1.pc = "fatal" THEN s1
             ELSE [s1 EXCEPT !.tableRows = <<>>,
                             !.output = s1.output
                                 \o <<Item("endltabulary", 0, <<>>, <<>>),
                                      Item("tablefoot", 0, <<>>, <<>>)>>]

\* Mutant of OnSectionLine: a repeated title is not looked for.
OnSectionLineNoSuppress(s, line) ==
    LET p == ParseTitleLine(line)
        t == p.sectionType
    IN  IF ~p.ok THEN [s EXCEPT !.pc = "fatal"]
        ELSE LET s1 == [s EXCEPT
                          !.sectionTypeToTitle =
                              [i \in SectionTypes |->
                                  IF i = t THEN p.outTitle
                                  ELSE IF i > t THEN <<>>
                                  ELSE s.sectionTypeToTitle[i]],
                          !.sectionTypeToCount =
                              [i \in SectionTypes |->
                                  IF i = t THEN s.sectionTypeToCount[i] + 1
                                  ELSE IF i > t THEN 0
                                  ELSE s.sectionTypeToCount[i]]]
                 r  == ReplaceCommentWithScript(p.outTitle)
             IN  IF ~r.ok THEN [s1 EXCEPT !.pc = "fatal"]
                 ELSE [s1 EXCEPT !.output =
                          Append(s.output,
                                 Item(kSectionNames[t + 1], t, r.text, p.start))]

\* Mutant of OnSectionLine: the deeper levels are left as they are.
OnSectionLineNoReset(s, line) ==
    LET p == ParseTitleLine(line)
        t == p.sectionType
    IN  IF ~p.ok THEN [s EXCEPT !.pc = "fatal"]
        ELSE IF s.sectionTypeToTitle[t] = p.outTitle THEN s
        ELSE LET s1 == [s EXCEPT
                          !.sectionTypeToTitle[t] = p.outTitle,
                          !.sectionTypeToCount[t] = s.sectionTypeToCount[t] + 1]
                 r  == ReplaceCommentWithScript(p.outTitle)
             IN  IF ~r.ok THEN [s1 EXCEPT !.pc = "fatal"]
                 ELSE [s1 EXCEPT !.output =
                          Append(s.output,
                                 Item(kSectionNames[t + 1], t, r.text, p.start))]

\* The branch line[0] == '+'.
OnSectionLine(s, line) ==
    LET p == ParseTitleLine(line)
        t == p.sectionType
    IN  IF ~p.ok THEN [s EXCEPT !.pc = "fatal"]
        ELSE IF s.sectionTypeToTitle[t] = p.outTitle THEN s
        ELSE LET s1 == [s EXCEPT
                          !.sectionTypeToTitle =
                              [i \in SectionTypes |->
                                  IF i = t THEN p.outTitle
                                  ELSE IF i > t THEN <<>>
                                  ELSE s.sectionTypeToTitle[i]],
                          !.sectionTypeToCount =
                              [i \in SectionTypes |->
                                  IF i = t THEN s.sectionTypeToCount[i] + 1
                                  ELSE IF i > t THEN 0
                                  ELSE s.sectionTypeToCount[i]]]
                 r  == ReplaceCommentWithScript(p.outTitle)
             IN  IF ~r.ok THEN [s1 EXCEPT !.pc = "fatal"]
                 ELSE [s1 EXCEPT !.output =
                          Append(s.output,
                                 Item(kSectionNames[t + 1], t, r.text, p.start))]

\* Mutant of OnParagraph: the line is written as it is.
OnParagraphAsIs(s, line) ==
    [s EXCEPT !.output = Append(s.output, Item("par", 0, line, <<>>))]

\* The last branch: a paragraph.
OnParagraph(s, line) ==
    LET r == ReplaceCommentWithScript(line)
    IN  IF ~r.ok THEN [s EXCEPT !.pc = "fatal"]
        ELSE [s EXCEPT !.output = Append(s.output, Item("par", 0, r.text, <<>>))]

\* Which branch a trimmed line takes in state s; "row" and "close" are the
\* inner loop of the table branch.
TexKind(s, line) ==
    IF s.pc = "table" THEN (IF line = kTableMarker THEN "close" ELSE "row")
    ELSE IF Len(line) = 0 THEN "blank"
    ELSE IF Len(s.title) = 0 THEN "title"
    ELSE IF Len(s.author) = 0 THEN "author"
    ELSE IF line = kTableMarker THEN "open"
    ELSE IF Head(line) = "+" THEN "section"
    ELSE "paragraph"

\* Mutant of TexLine: a row is compared with the first row as it is read.
TexLineEager(s, raw) ==
    LET line == TrimSpace(raw)
        kind == TexKind(s, line)
    IN  CASE kind = "row"     ->
                IF s.tableRows # <<>>
                   /\ Len(Split(line)) # Len(Split(s.tableRows[1]))
                THEN [s EXCEPT !.pc = "fatal"]
                ELSE [s EXCEPT !.tableRows = Append(s.tableRows, line)]
          [] kind = "close"   -> EmitTable(s)
          [] kind = "blank"   -> s
          [] kind = "title"   -> [s EXCEPT !.title = line]
          [] kind = "author"  ->
                [s EXCEPT !.author = line,
                          !.output = s.output
                              \o <<Item("titlepage", 0, s.title, line),
                                   Item("tableofcontents", 0, <<>>, <<>>),
                                   Item("newpage", 0, <<>>, <<>>)>>]
          [] kind = "open"    -> [s EXCEPT !.pc = "table", !.tableRows = <<>>]
          [] kind = "section" -> OnSectionLine(s, line)
          [] OTHER            -> OnParagraph(s, line)

\* One inputScanner.Scan() of ConvertToTex, of the outer or the inner loop,
\* and what is done with the line.
TexLine(s, raw) ==
    LET line == TrimSpace(raw)
        kind == TexKind(s, line)
    IN  CASE kind = "row"     -> [s EXCEPT !.tableRows = Append(s.tableRows, line)]
          [] kind = "close"   -> EmitTable(s)
          [] kind = "blank"   -> s
          [] kind = "title"   -> [s EXCEPT !.title = line]
          [] kind = "author"  ->
                [s EXCEPT !.author = line,
                          !.output = s.output
                              \o <<Item("titlepage", 0, s.title, line),
                                   Item("tableofcontents", 0, <<>>, <<>>),
                                   Item("newpage", 0, <<>>, <<>>)>>]
          [] kind = "open"    -> [s EXCEPT !.pc = "table", !.tableRows = <<>>]
          [] kind = "section" -> OnSectionLine(s, line)
          [] OTHER            -> OnParagraph(s, line)

\* Mutant of TexEnd: the document is ended after a fatal table as well.
TexEndAlways(s) ==
    LET s1 == IF s.pc = "table" THEN EmitTable(s) ELSE s
    IN  [s1 EXCEPT !.output = Append(s1.output,
                                     Item("enddocument", 0, <<>>, <<>>)),
                   !.pc = IF s1.pc = "fatal" THEN "fatal" ELSE "done"]

\* inputScanner.Scan() returned false: a table still open is written, then
\* the document is ended.
TexEnd(s) ==
    LET s1 == IF s.pc = "table" THEN EmitTable(s) ELSE s
    IN  IF s1.pc = "fatal" THEN s1
        ELSE [s1 EXCEPT !.pc = "done",
                        !.output = Append(s1.output,
                                          Item("enddocument", 0, <<>>, <<>>))]

\* ConvertToTex on the lines of a file, up to but not including the end of
\* input.
RECURSIVE TexFrom(_, _)
TexFrom(s, lines) ==
    IF s.pc \notin {"run", "table"} \/ lines = <<>> THEN s
    ELSE TexFrom(TexLine(s, Head(lines)), Tail(lines))

\* ConvertToTex on a whole file.
ConvertToTex(lines) ==
    LET s == TexFrom(TexStart, lines)
    IN  IF s.pc \in {"run", "table"} THEN TexEnd(s) ELSE s

\* The current state of ConvertToTex as a record.
TexCur ==
    [pc |-> pc, output |-> output, title |-> title, author |-> author,
     sectionTypeToCount |-> sectionTypeToCount,
     sectionTypeToTitle |-> sectionTypeToTitle,
     tableRows |-> tableRows]

TexBecomes(s) ==
    /\ pc' = s.pc
    /\ output' = s.output
    /\ title' = s.title
    /\ author' = s.author
    /\ sectionTypeToCount' = s.sectionTypeToCount
    /\ sectionTypeToTitle' = s.sectionTypeToTitle
    /\ tableRows' = s.tableRows
    /\ UNCHANGED textLeft
    /\ UNCHANGED formatVars
    /\ UNCHANGED mainVars

\* inputScanner.Scan() returned `raw`, and the branch `kind` was taken.
TexRead(raw, kind) ==
    /\ TexKind(TexCur, TrimSpace(raw)) = kind
    /\ TexBecomes(TexLine(TexCur, raw))
    /\ input' = Append(input, raw)

\* The actions of ConvertToTex, on a file of at most `max` lines drawn from
\* the set L.
\* len(line) == 0: continue
TexSkipBlank(L, max) ==
    /\ pc = "run"
    /\ Len(input) < max
    /\ \E raw \in L : TexRead(raw, "blank")

\* len(title) == 0
TexTitle(L, max) ==
    /\ pc = "run"
    /\ Len(input) < max
    /\ \E raw \in L : TexRead(raw, "title")

\* len(author) == 0
TexAuthor(L, max) ==
    /\ pc = "run"
    /\ Len(input) < max
    /\ \E raw \in L : TexRead(raw, "author")

\* line == kTableMarker: the inner loop is entered
TexOpenTable(L, max) ==
    /\ pc = "run"
    /\ Len(input) < max
    /\ \E raw \in L : TexRead(raw, "open")

\* the inner loop: tableRows = append(tableRows, line)
TexTableRow(L, max) ==
    /\ pc = "table"
    /\ Len(input) < max
    /\ \E raw \in L : TexRead(raw, "row")

\* the inner loop: line == kTableMarker, break; the table is written
TexCloseTable(L, max) ==
    /\ pc = "table"
    /\ Len(input) < max
    /\ \E raw \in L : TexRead(raw, "close")

\* line[0] == '+'
TexSection(L, max) ==
    /\ pc = "run"
    /\ Len(input) < max
    /\ \E raw \in L : TexRead(raw, "section")

\* else: a paragraph
TexParagraph(L, max) ==
    /\ pc = "run"
    /\ Len(input) < max
    /\ \E raw \in L : TexRead(raw, "paragraph")

TexEndOfInput ==
    /\ pc \in {"run", "table"}
    /\ TexBecomes(TexEnd(TexCur))
    /\ UNCHANGED input

TexInit ==
    /\ input = <<>>
    /\ pc = TexStart.pc
    /\ output = TexStart.output
    /\ title = TexStart.title
    /\ author = TexStart.author
    /\ sectionTypeToCount = TexStart.sectionTypeToCount
    /\ sectionTypeToTitle = TexStart.sectionTypeToTitle
    /\ tableRows = TexStart.tableRows
    /\ textLeft = <<>>
    /\ buffer = <<>>
    /\ inQuote = FALSE
    /\ inTable = FALSE
    /\ isSpace = FALSE
    /\ couldEnd = FALSE
    /\ lineNumber = 0
    /\ written = <<>>
    /\ NoMain

\* Files of section markers: two titles, two depths, a marker with no title.
SectionLines ==
    { <<"SP">>,
      <<"a">>,
      kTableMarker,
      <<"+", "a">>,
      <<"+", "b">>,
      <<"+", "+", "a">>,
      <<"+">> }

SectionsNext ==
    \/ TexSkipBlank(SectionLines, MaxSectionLines)
    \/ TexTitle(SectionLines, MaxSectionLines)
    \/ TexAuthor(SectionLines, MaxSectionLines)
    \/ TexOpenTable(SectionLines, MaxSectionLines)
    \/ TexTableRow(SectionLines, MaxSectionLines)
    \/ TexCloseTable(SectionLines, MaxSectionLines)
    \/ TexSection(SectionLines, MaxSectionLines)
    \/ TexParagraph(SectionLines, MaxSectionLines)
    \/ TexEndOfInput

SectionsSpec == TexInit /\ [][SectionsNext]_vars

\* Files of tables: rows of three columns, of two and of one.
TableLines ==
    { <<>>,
      kTableMarker,
      <<"a", "|", "a", "|", "a">>,
      <<"a", "|", "a">>,
      <<"+", "a">> }

TablesNext ==
    \/ TexSkipBlank(TableLines, MaxTableLines)
    \/ TexTitle(TableLines, MaxTableLines)
    \/ TexAuthor(TableLines, MaxTableLines)
    \/ TexOpenTable(TableLines, MaxTableLines)
    \/ TexTableRow(TableLines, MaxTableLines)
    \/ TexCloseTable(TableLines, MaxTableLines)
    \/ TexSection(TableLines, MaxTableLines)
    \/ TexParagraph(TableLines, MaxTableLines)
    \/ TexEndOfInput

TablesSpec == TexInit /\ [][TablesNext]_vars

\* Files of comments: a title, an author, then paragraphs and headings whose
\* text is made of 'a', the opening and the closing parenthesis.
Runes == {"a", kCommentStart, kCommentEnd}

ShortTexts ==
    UNION {[1..n -> Runes] : n \in 1..3}

LongTexts ==
    { <<"RP", "LP", "a", "RP">>,
      <<"LP", "a", "RP", "LP">>,
      <<"a", "LP", "a", "RP", "a">>,
      <<"LP", "a", "RP", "LP", "a", "RP">>,
      <<"LP", "a", "LP", "a", "RP", "a", "RP">> }

HeadTexts ==
    { <<"a">>, <<"LP", "a", "RP">>, <<"LP", "RP">>, <<"LP", "a">>,
      <<"a", "LP", "a", "RP", "a">>, <<"RP", "LP", "a", "RP">>,
      <<"LP", "a", "RP", "LP">> }

TitleLines == { <<"a">> }

CommentLines ==
    { <<>>, kTableMarker }
        \cup ShortTexts
        \cup LongTexts
        \cup { <<"+">> \o t : t \in HeadTexts }
        \cup { <<"+", "+">> \o t : t \in {<<"a">>, <<"LP", "a">>} }

CommentsNext ==
    \/ TexSkipBlank(CommentLines, MaxCommentLines)
    \/ TexTitle(TitleLines, MaxCommentLines)
    \/ TexAuthor(TitleLines, MaxCommentLines)
    \/ TexOpenTable(CommentLines, MaxCommentLines)
    \/ TexTableRow(TitleLines, MaxCommentLines)
    \/ TexCloseTable(CommentLines, MaxCommentLines)
    \/ TexSection(CommentLines, MaxCommentLines)
    \/ TexParagraph(CommentLines, MaxCommentLines)
    \/ TexEndOfInput

CommentsSpec == TexInit /\ [][CommentsNext]_vars

\* Files of headings of every depth: 1 to 9 markers before the title 'a',
\* and 8 markers before the title 'b'.
Pluses(n) == [i \in 1..n |-> "+"]

MarkerLines ==
    { <<>>, <<"a">>, kTableMarker, Pluses(8) \o <<"b">> }
        \cup { Pluses(n) \o <<"a">> : n \in 1..(Len(kSectionNames) + 1) }

MarkersNext ==
    \/ TexSkipBlank(MarkerLines, MaxMarkerLines)
    \/ TexTitle(TitleLines, MaxMarkerLines)
    \/ TexAuthor(TitleLines, MaxMarkerLines)
    \/ TexOpenTable(MarkerLines, MaxMarkerLines)
    \/ TexTableRow(TitleLines, MaxMarkerLines)
    \/ TexCloseTable(MarkerLines, MaxMarkerLines)
    \/ TexSection(MarkerLines, MaxMarkerLines)
    \/ TexParagraph(MarkerLines, MaxMarkerLines)
    \/ TexEndOfInput

MarkersSpec == TexInit /\ [][MarkersNext]_vars

\* Files with each of the three fatal errors: rows of two fields and of one,
\* a line of 9 markers, a comment that is not closed.
FatalLines ==
    { <<>>, <<"a">>, kTableMarker, <<"a", "|", "a">>,
      Pluses(Len(kSectionNames) + 1) \o <<"a">>,
      <<"LP", "a">> }

FatalsNext ==
    \/ TexSkipBlank(FatalLines, MaxFatalLines)
    \/ TexTitle(TitleLines, MaxFatalLines)
    \/ TexAuthor(TitleLines, MaxFatalLines)
    \/ TexOpenTable(FatalLines, MaxFatalLines)
    \/ TexTableRow(FatalLines, MaxFatalLines)
    \/ TexCloseTable(FatalLines, MaxFatalLines)
    \/ TexSection(FatalLines, MaxFatalLines)
    \/ TexParagraph(FatalLines, MaxFatalLines)
    \/ TexEndOfInput

FatalsSpec == TexInit /\ [][FatalsNext]_vars

(***************************************************************************)
(* func main of the format tool and of the tex tool: the loop over the     *)
(* files named on the command line.  A file is a record: txt, its name     *)
(* ends in ".txt"; canOpen, os.Open succeeds; canCreate, os.Create of the  *)
(* output succeeds; lines, its lines.                                      *)
(***************************************************************************)
\* The lines ConvertToTex has read of a file when it returns or exits.
TexLinesRead(lines) ==
    IF \E k \in 1..Len(lines) : TexFrom(TexStart, SubSeq(lines, 1, k)).pc = "fatal"
    THEN CHOOSE k \in 1..Len(lines) :
             /\ TexFrom(TexStart, SubSeq(lines, 1, k)).pc = "fatal"
             /\ \A j \in 1..(k - 1) :
                   TexFrom(TexStart, SubSeq(lines, 1, j)).pc # "fatal"
    ELSE Len(lines)

\* Format(input, output) or ConvertToTex(input, output) on the file f.  When
\* os.Open fails the function returns.  When os.Create fails it goes on with
\* a nil outputFile: every write to it fails and the loop runs as it does
\* otherwise.
RunFile(tool, f) ==
    IF ~f.canOpen
    THEN [outcome |-> "openfail", linesRead |-> 0, created |-> FALSE,
          content |-> <<>>]
    ELSE LET r == IF tool = "format" THEN Format(f.lines)
                  ELSE ConvertToTex(f.lines)
         IN  [outcome   |-> r.pc,
              linesRead |-> IF tool = "format" THEN r.lineNumber
                            ELSE TexLinesRead(f.lines),
              created   |-> f.canCreate,
              content   |-> IF f.canCreate THEN r.output ELSE <<>>]

\* The file the loop of main takes next.
Arg == args[argIndex]

\* len(flag.Args()) == 0: the usage is printed
MainUsage ==
    /\ proc = "main"
    /\ Len(args) = 0
    /\ proc' = "returned"
    /\ UNCHANGED <<stage, args, argIndex, outcomes>>
    /\ UNCHANGED <<pc, input, output, title, author, formatVars, texVars>>

\* !strings.HasSuffix(input, ".txt"): continue
MainIgnore ==
    /\ proc = "main"
    /\ argIndex <= Len(args)
    /\ ~Arg.txt
    /\ outcomes' = Append(outcomes,
                          [outcome |-> "ignored", linesRead |-> 0,
                           created |-> FALSE, content |-> <<>>])
    /\ argIndex' = argIndex + 1
    /\ UNCHANGED <<stage, args, proc>>
    /\ UNCHANGED <<pc, input, output, title, author, formatVars, texVars>>

\* the call returns at once: os.Open failed
MainOpenFails ==
    /\ proc = "main"
    /\ argIndex <= Len(args)
    /\ Arg.txt
    /\ RunFile(stage, Arg).outcome = "openfail"
    /\ outcomes' = Append(outcomes, RunFile(stage, Arg))
    /\ argIndex' = argIndex + 1
    /\ UNCHANGED <<stage, args, proc>>
    /\ UNCHANGED <<pc, input, output, title, author, formatVars, texVars>>

\* the call returns after the end of the file
MainConverts ==
    /\ proc = "main"
    /\ argIndex <= Len(args)
    /\ Arg.txt
    /\ RunFile(stage, Arg).outcome = "done"
    /\ outcomes' = Append(outcomes, RunFile(stage, Arg))
    /\ argIndex' = argIndex + 1
    /\ UNCHANGED <<stage, args, proc>>
    /\ UNCHANGED <<pc, input, output, title, author, formatVars, texVars>>

\* the call does not return: log.Fatal has exited the process
MainFatal ==
    /\ proc = "main"
    /\ argIndex <= Len(args)
    /\ Arg.txt
    /\ RunFile(stage, Arg).outcome = "fatal"
    /\ outcomes' = Append(outcomes, RunFile(stage, Arg))
    /\ proc' = "exited"
    /\ UNCHANGED <<stage, args, argIndex>>
    /\ UNCHANGED <<pc, input, output, title, author, formatVars, texVars>>

\* the loop has taken every file
MainReturns ==
    /\ proc = "main"
    /\ Len(args) > 0
    /\ argIndex > Len(args)
    /\ proc' = "returned"
    /\ UNCHANGED <<stage, args, argIndex, outcomes>>
    /\ UNCHANGED <<pc, input, output, title, author, formatVars, texVars>>

\* The files of a command line: one both tools take to its end, one Format
\* ends with a pending paragraph, one ConvertToTex ends at a line of 9 markers.
FileLines ==
    { << <<"a">>, <<"a">>, <<"a", "DOT">> >>,
      << <<"a">>, <<"a">>, <<"a">> >>,
      << <<"a">>, <<"a">>, Pluses(Len(kSectionNames) + 1) \o <<"a">>, <<"a", "DOT">> >> }

Files ==
    [txt : BOOLEAN, canOpen : BOOLEAN, canCreate : BOOLEAN, lines : FileLines]

MainInit ==
    /\ stage \in {"format", "tex"}
    /\ args \in UNION {[1..n -> Files] : n \in 0..MaxArgs}
    /\ argIndex = 1
    /\ proc = "main"
    /\ outcomes = <<>>
    /\ pc = ""
    /\ input = <<>>
    /\ output = <<>>
    /\ title = <<>>
    /\ author = <<>>
    /\ buffer = <<>>
    /\ inQuote = FALSE
    /\ inTable = FALSE
    /\ isSpace = FALSE
    /\ couldEnd = FALSE
    /\ lineNumber = 0
    /\ written = <<>>
    /\ sectionTypeToCount = [i \in {} |-> 0]
    /\ sectionTypeToTitle = [i \in {} |-> <<>>]
    /\ tableRows = <<>>
    /\ textLeft = <<>>

MainNext ==
    \/ MainUsage
    \/ MainIgnore
    \/ MainOpenFails
    \/ MainConverts
    \/ MainFatal
    \/ MainReturns

MainSpec == MainInit /\ [][MainNext]_vars

(***************************************************************************)
(* The three loops, each run to its end: the loop of Format over the       *)
(* lines, the loop of ConvertToTex over the lines, and the loop of         *)
(* ReplaceCommentWithScript over the comments of one text.  Here `stage`   *)
(* tells which of the three runs, and input holds the text in the third.   *)
(* A loop that can take an iteration takes one: the scanner returns a line *)
(* or the end of a finite input, and nothing else runs.                    *)
(***************************************************************************)
\* The lines of the files Format is run to its end on: a blank line, a
\* fence, a paragraph that is not ended, one that is, one with an open quote.
StageFormatLines ==
    { <<"IDSP">>, kTableMarker, <<"a">>, <<"a", "DOT">>, <<"LQ", "a", "DOT">> }

\* One iteration of the loop of Format: a line is read and handled.
StageFormatLine ==
    /\ stage = "format"
    /\ pc = "run"
    /\ Len(input) < MaxStageLines
    /\ \E raw \in StageFormatLines :
          /\ Becomes(FormatLine(Cur, raw))
          /\ input' = Append(input, raw)

\* inputScanner.Scan() of Format returned false.
StageFormatEnd ==
    /\ stage = "format"
    /\ EndOfInput

\* The lines of the files ConvertToTex is run to its end on: a blank line, a
\* paragraph, a fence, a row of two fields, a comment not closed, a heading.
StageTexLines ==
    { <<>>, <<"a">>, kTableMarker, <<"a", "|", "a">>, <<"LP", "a">>,
      <<"+", "a">> }

\* One inputScanner.Scan() of ConvertToTex, of the outer or the inner loop.
StageTexLine ==
    /\ stage = "tex"
    /\ pc \in {"run", "table"}
    /\ Len(input) < MaxStageLines
    /\ \E raw \in StageTexLines :
          /\ TexBecomes(TexLine(TexCur, raw))
          /\ input' = Append(input, raw)

\* inputScanner.Scan() of ConvertToTex returned false.
StageTexEnd ==
    /\ stage = "tex"
    /\ TexEndOfInput

\* The texts ReplaceCommentWithScript is called on.
LoopTexts == {<<>>} \cup ShortTexts \cup LongTexts

\* What an iteration of the loop of ReplaceCommentWithScript leaves alone.
LoopFrame ==
    UNCHANGED <<input, output, title, author, inQuote, inTable, isSpace,
                couldEnd, lineNumber, written, sectionTypeToCount,
                sectionTypeToTitle, tableRows, mainVars>>

\* start == -1: break, the rest of the text is written, return.
ReplaceNoComment ==
    /\ stage = "replace"
    /\ pc = "run"
    /\ Index(textLeft, kCommentStart) = -1
    /\ buffer' = buffer \o textLeft
    /\ pc' = "done"
    /\ UNCHANGED textLeft
    /\ LoopFrame

\* start >= end: what precedes the comment has been written, log.Fatalf.
ReplaceInvalid ==
    /\ stage = "replace"
    /\ pc = "run"
    /\ LET start == Index(textLeft, kCommentStart)
           end   == Index(textLeft, kCommentEnd)
       IN  /\ start # -1
           /\ start + 1 >= end
           /\ buffer' = buffer \o Slice(textLeft, 0, start)
    /\ pc' = "fatal"
    /\ UNCHANGED textLeft
    /\ LoopFrame

\* Mutant of ReplaceComment: the text is not cut after the comment.
ReplaceCommentKeepsText ==
    /\ stage = "replace"
    /\ pc = "run"
    /\ LET start == Index(textLeft, kCommentStart)
           end   == Index(textLeft, kCommentEnd)
       IN  /\ start # -1
           /\ start + 1 < end
    /\ UNCHANGED <<pc, buffer, textLeft>>
    /\ LoopFrame

\* A comment is written as a script and the text is cut after it; break and
\* return where nothing is left.
ReplaceComment ==
    /\ stage = "replace"
    /\ pc = "run"
    /\ LET start == Index(textLeft, kCommentStart)
           end   == Index(textLeft, kCommentEnd)
       IN  /\ start # -1
           /\ start + 1 < end
           /\ buffer' = buffer \o Slice(textLeft, 0, start) \o <<"{scriptsize">>
                            \o Slice(textLeft, start + 1, end) \o <<"}">>
           /\ textLeft' = Slice(textLeft, end + 1, Len(textLeft))
           /\ pc' = IF Len(textLeft') = 0 THEN "done" ELSE "run"
    /\ LoopFrame

StagesInit ==
    /\ stage \in {"format", "tex", "replace"}
    /\ args = <<>>
    /\ argIndex = 0
    /\ proc = ""
    /\ outcomes = <<>>
    /\ pc = "run"
    /\ input \in IF stage = "replace" THEN {<<t>> : t \in LoopTexts} ELSE {<<>>}
    /\ textLeft = IF stage = "replace" THEN input[1] ELSE <<>>
    /\ output = IF stage = "tex" THEN TexStart.output ELSE <<>>
    /\ title = <<>>
    /\ author = <<>>
    /\ buffer = <<>>
    /\ inQuote = FALSE
    /\ inTable = FALSE
    /\ isSpace = FALSE
    /\ couldEnd = FALSE
    /\ lineNumber = 0
    /\ written = <<>>
    /\ sectionTypeToCount =
          IF stage = "tex" THEN TexStart.sectionTypeToCount ELSE [i \in {} |-> 0]
    /\ sectionTypeToTitle =
          IF stage = "tex" THEN TexStart.sectionTypeToTitle ELSE [i \in {} |-> <<>>]
    /\ tableRows = <<>>

StagesNext ==
    \/ StageFormatLine
    \/ StageFormatEnd
    \/ StageTexLine
    \/ StageTexEnd
    \/ ReplaceNoComment
    \/ ReplaceInvalid
    \/ ReplaceComment

StagesSpec == StagesInit /\ [][StagesNext]_vars /\ WF_vars(StagesNext)

(***************************************************************************)
(* Vocabulary of the properties.                                           *)
(***************************************************************************)
IsQuote(r) == r = startQuote \/ r = endQuote

IsSpaceRune(r) == r = "SP"

\* The quote glyphs of a text, in order.
QuotesOf(text) == SelectSeq(text, IsQuote)

RECURSIVE Flatten(_)
Flatten(lines) ==
    IF lines = <<>> THEN <<>> ELSE Head(lines) \o Flatten(Tail(lines))

\* The runs of whitespace code points of a line.
SpaceRuns(line) ==
    Cardinality({i \in 1..Len(line) :
                    IsSpace(line[i]) /\ (i = 1 \/ ~IsSpace(line[i - 1]))})

\* A line with no whitespace and no quote glyph: the scan copies it.
Plain(line) == \A i \in 1..Len(line) : ~IsSpace(line[i]) /\ ~IsQuote(line[i])

\* The scanned body lines of a file: the trimmed non-blank lines that are not
\* the title, the author, a fence, a line between two fences or a "+" line.
RECURSIVE ScannedOf(_, _, _)
ScannedOf(lines, heads, tbl) ==
    IF lines = <<>> THEN <<>>
    ELSE LET l == TrimSpace(Head(lines))
             rest == Tail(lines)
         IN  IF l = <<>> THEN ScannedOf(rest, heads, tbl)
             ELSE IF heads < 2 THEN ScannedOf(rest, heads + 1, tbl)
             ELSE IF l = kTableMarker THEN ScannedOf(rest, heads, ~tbl)
             ELSE IF tbl \/ Head(l) = "+" THEN ScannedOf(rest, heads, tbl)
             ELSE <<l>> \o ScannedOf(rest, heads, tbl)

\* The step reads a line; the line as trimmed; the branch it takes.
ReadsLine == input' # input

LineRead == TrimSpace(input'[Len(input')])

KindRead == LineKind(Cur, LineRead)

\* The runes the step hands to buffer.Write.
NewWritten == SubSeq(written', Len(written) + 1, Len(written'))

\* What the output holds once a pending buffer has been printed.
WithPending == IF Len(buffer) > 0 THEN Append(output, buffer) ELSE output

(***************************************************************************)
(* C1.  Whitespace collapse: every run of one or more whitespace code      *)
(* points inside a scanned body line is written as exactly one ASCII       *)
(* space, whatever came before it in the stream.                           *)
(***************************************************************************)
C1_OneSpacePerRun ==
    [][(ReadsLine /\ KindRead = "scan")
          => Len(SelectSeq(NewWritten, IsSpaceRune)) = SpaceRuns(LineRead)]_vars

(***************************************************************************)
(* C2.  Quote pairing: the quote glyphs the scan writes alternate opening, *)
(* closing, opening, ... starting with an opening glyph, whichever glyph   *)
(* the input used; inQuote is true exactly when an odd number of them has  *)
(* been written.                                                           *)
(***************************************************************************)
C2_QuotesAlternate ==
    LET q == QuotesOf(written)
    IN  /\ \A i \in 1..Len(q) :
              q[i] = IF i % 2 = 1 THEN startQuote ELSE endQuote
        /\ inQuote <=> (Len(q) % 2 = 1)
        /\ Len(q) = Len(QuotesOf(Flatten(ScannedOf(input, 0, FALSE))))

\* A closing-form glyph opened a quotation and an opening-form glyph closed
\* it, one line later; the paragraph was written with the glyphs set right.
C2_Witness ==
    /\ Len(input) = 4
    /\ input[3] = <<"RQ">>
    /\ input[4] = <<"a", "LQ">>
    /\ written = <<"LQ", "a", "RQ">>
    /\ output[3] = <<"LQ", "a", "RQ">>

(***************************************************************************)
(* C3.  Sentence merge: a scanned line after which couldEnd is false or    *)
(* inQuote is true writes nothing, and its characters are appended to the  *)
(* pending buffer with no separator; the buffer is written as one line and *)
(* emptied at the end of the first line after which couldEnd is true and   *)
(* inQuote false.  Two consecutive lines, the first with no terminal mark  *)
(* and the second ending with one outside any quote, give one output line, *)
(* their concatenation.                                                    *)
(***************************************************************************)
C3_MergeBrokenParagraphs ==
    [][/\ (ReadsLine /\ KindRead = "scan") =>
             /\ IF couldEnd' /\ ~inQuote'
                THEN output' = Append(output, buffer \o NewWritten) /\ buffer' = <<>>
                ELSE output' = output /\ buffer' = buffer \o NewWritten
             /\ Plain(LineRead) => NewWritten = LineRead
             /\ ( /\ input # <<>>
                  /\ buffer # <<>>
                  /\ buffer = TrimSpace(input[Len(input)])
                  /\ Plain(buffer)
                  /\ Plain(LineRead)
                  /\ IsTerminal(LineRead[Len(LineRead)]) )
                => output' = Append(output, TrimSpace(input[Len(input)]) \o LineRead)
       /\ (ReadsLine /\ KindRead = "blank") =>
             UNCHANGED <<output, buffer, couldEnd, inQuote>>
       /\ (pc' = "run" /\ buffer' # <<>>) => ~(couldEnd' /\ ~inQuote')]_vars

\* "a" then "a。": one paragraph "aa。".
C3_Witness ==
    /\ Len(input) = 4
    /\ input[3] = <<"a">>
    /\ input[4] = <<"a", "DOT">>
    /\ Len(output) = 3
    /\ output[3] = <<"a", "a", "DOT">>
    /\ buffer = <<>>

(***************************************************************************)
(* C4.  Idempotence: when Format ends without a fatal error, Format on its *)
(* own output ends without a fatal error too and writes the same lines.    *)
(***************************************************************************)
C4_Idempotent ==
    pc = "done" =>
        LET again == Format(output)
        IN  again.pc = "done" /\ again.output = output

\* A run that changed its input: whitespace collapsed and runs dropped,
\* two paragraphs written.
C4_Witness ==
    /\ pc = "done"
    /\ Len(input) = 4
    /\ input[3] = <<"a", "SP", "IDSP", "a", "DOT">>
    /\ input[4] = <<"a", "SP", "IDSP", "a", "DOT">>
    /\ Len(output) = 4
    /\ output # input

(***************************************************************************)
(* C5.  End of input: the run ends fatally exactly when the buffer is not  *)
(* empty or inQuote is true; a non-empty buffer is written first, as one   *)
(* line; otherwise the run ends normally and writes nothing.  Nothing      *)
(* happens after either end.                                               *)
(***************************************************************************)
C5_EndOfInput ==
    [][/\ (pc = "run" /\ ~ReadsLine) =>
             /\ pc' \in {"done", "fatal"}
             /\ (pc' = "fatal") <=> (Len(buffer) > 0 \/ inQuote)
             /\ output' = WithPending
             /\ pc' = "done" => output' = output
       /\ pc # "run" => FALSE]_vars

\* The input ended after the unfinished paragraph "a", which was written.
C5_Witness ==
    /\ pc = "fatal"
    /\ Len(input) = 3
    /\ input[3] = <<"a">>
    /\ output[Len(output)] = <<"a">>
    /\ Len(output) = 3

(***************************************************************************)
(* C6.  A fence line, a line in table mode or a "+" line read while the    *)
(* buffer is not empty or inQuote is true is fatal at that line: the       *)
(* buffer, if not empty, is written, the line is not, and no later line is *)
(* processed.                                                              *)
(***************************************************************************)
C6_InterruptedParagraph ==
    [][/\ ( /\ ReadsLine
            /\ KindRead \in {"fence", "verbatim"}
            /\ (Len(buffer) > 0 \/ inQuote) )
          => pc' = "fatal" /\ output' = WithPending
       /\ pc = "fatal" => FALSE]_vars

\* A "+" line after the unfinished paragraph "a".
C6_Witness ==
    /\ pc = "fatal"
    /\ Len(input) = 4
    /\ input[3] = <<"a">>
    /\ input[4] = <<"+", "a">>
    /\ Len(output) = 3
    /\ output[3] = <<"a">>

(***************************************************************************)
(* C7.  As claimed: a stream whose quote glyphs, counted over every line,  *)
(* are odd in number is rejected with a fatal error.                       *)
(***************************************************************************)
C7_OddTotalRejected ==
    (Len(QuotesOf(Flatten(input))) % 2 = 1) => pc # "done"

(***************************************************************************)
(* C7, amended.  A stream whose quote glyphs, counted over its scanned     *)
(* body lines, are odd in number is rejected with a fatal error: while the *)
(* count is odd the run has not ended normally and inQuote is true, so the *)
(* end of input is fatal.                                                  *)
(***************************************************************************)
C7_OddBodyRejected ==
    (Len(QuotesOf(Flatten(ScannedOf(input, 0, FALSE)))) % 2 = 1)
        => pc # "done" /\ (pc = "run" => inQuote /\ FormatEnd(Cur).pc = "fatal")

\* One quote glyph in the only body line; the end of input was fatal.
C7_Witness ==
    /\ pc = "fatal"
    /\ Len(input) = 3
    /\ input[3] = <<"LQ", "a", "DOT">>
    /\ Len(QuotesOf(Flatten(ScannedOf(input, 0, FALSE)))) = 1

(***************************************************************************)
(* Vocabulary of the properties of ConvertToTex.                           *)
(***************************************************************************)
IsSectionItem(it) == \E i \in 1..Len(kSectionNames) : it.k = kSectionNames[i]

IsRowItem(it) == it.k = "row"

\* The section headings written so far.
SectionsIn(out) == SelectSeq(out, IsSectionItem)

\* The lines read, without the blank lines read last.
RECURSIVE StripBlankTail(_)
StripBlankTail(lines) ==
    IF lines # <<>> /\ TrimSpace(lines[Len(lines)]) = <<>>
    THEN StripBlankTail(SubSeq(lines, 1, Len(lines) - 1))
    ELSE lines

\* The last line read that is not blank, and ConvertToTex before it was read.
PrevLine == TrimSpace(StripBlankTail(input)[Len(StripBlankTail(input))])

BeforePrev ==
    TexFrom(TexStart,
            SubSeq(StripBlankTail(input), 1, Len(StripBlankTail(input)) - 1))

\* The step reads a section marker of 1 to 8 '+' outside a table, the second
\* of two consecutive markers that are the same line: same level, same title.
SecondOfPair ==
    /\ ReadsLine
    /\ pc = "run"
    /\ TexKind(TexCur, LineRead) = "section"
    /\ NumOfPlus(LineRead) <= Len(kSectionNames)
    /\ StripBlankTail(input) # <<>>
    /\ PrevLine = LineRead
    /\ BeforePrev.pc = "run"
    /\ TexKind(BeforePrev, PrevLine) = "section"

\* The step reads a section marker of level L and title t that is not
\* suppressed.
OpensSection(L, t) ==
    /\ ReadsLine
    /\ pc = "run"
    /\ TexKind(TexCur, LineRead) = "section"
    /\ NumOfPlus(LineRead) = L + 1
    /\ t = Slice(LineRead, L + 1, Len(LineRead))
    /\ sectionTypeToTitle[L] # t

\* Every level deeper than the section heading written last is clear; every
\* level is while none has been written.
DeeperCleared ==
    pc # "fatal" =>
        LET secs == SectionsIn(output)
            last == IF secs = <<>> THEN -1 ELSE secs[Len(secs)].n
        IN  \A i \in SectionTypes :
                i > last => sectionTypeToTitle[i] = <<>> /\ sectionTypeToCount[i] = 0

\* '|'-separated fields of a row, and the row as written, '|' become " & ".
Fields(row) == 1 + Cardinality({j \in 1..Len(row) : row[j] = "|"})

RowText(row) == [j \in 1..Len(row) |-> IF row[j] = "|" THEN "&" ELSE row[j]]

(***************************************************************************)
(* C8.  As claimed: two consecutive section markers of one level with the  *)
(* same title produce exactly one heading and exactly one increment of     *)
(* that level's counter.                                                   *)
(***************************************************************************)
C8_PairEmitsOnce ==
    [][SecondOfPair =>
          LET L == NumOfPlus(LineRead) - 1
          IN  /\ Len(SectionsIn(output')) = Len(SectionsIn(BeforePrev.output)) + 1
              /\ sectionTypeToCount'[L] = BeforePrev.sectionTypeToCount[L] + 1]_vars

(***************************************************************************)
(* C8, amended.  The second of two consecutive section markers of one      *)
(* level with the same title writes nothing and changes no title and no    *)
(* counter of any level; the pair produces exactly one heading and one     *)
(* increment when the first of the two is not itself suppressed, and none  *)
(* when it is.                                                             *)
(***************************************************************************)
C8_DuplicateSuppressed ==
    [][SecondOfPair =>
          LET L == NumOfPlus(LineRead) - 1
              t == Slice(LineRead, L + 1, Len(LineRead))
              b == BeforePrev
          IN  /\ UNCHANGED <<pc, output, sectionTypeToCount, sectionTypeToTitle>>
              /\ IF b.sectionTypeToTitle[L] # t
                 THEN /\ Len(SectionsIn(output')) = Len(SectionsIn(b.output)) + 1
                      /\ sectionTypeToCount'[L] = b.sectionTypeToCount[L] + 1
                 ELSE /\ output' = b.output
                      /\ sectionTypeToCount' = b.sectionTypeToCount]_vars

\* "+a" read twice: one part heading, counter 1.
C8_Witness ==
    /\ pc = "run"
    /\ Len(input) = 4
    /\ input[3] = <<"+", "a">>
    /\ input[4] = <<"+", "a">>
    /\ Len(SectionsIn(output)) = 1
    /\ sectionTypeToCount[0] = 1

(***************************************************************************)
(* C9.  Section tree: a section marker of level L that is not suppressed   *)
(* adds one to the counter of L, sets the title of L, clears title and     *)
(* counter of every deeper level and leaves the shallower levels alone.    *)
(* So after any lines, every level deeper than the section opened last has *)
(* an empty title and a counter of 0.                                      *)
(***************************************************************************)
C9_SectionTree ==
    [][/\ \A L \in SectionTypes :
             LET t == Slice(LineRead, L + 1, Len(LineRead))
             IN  OpensSection(L, t) =>
                    /\ sectionTypeToCount'[L] = sectionTypeToCount[L] + 1
                    /\ sectionTypeToTitle'[L] = t
                    /\ \A i \in SectionTypes :
                          /\ i > L => /\ sectionTypeToTitle'[i] = <<>>
                                      /\ sectionTypeToCount'[i] = 0
                          /\ i < L => /\ sectionTypeToTitle'[i] = sectionTypeToTitle[i]
                                      /\ sectionTypeToCount'[i] = sectionTypeToCount[i]
                    /\ Len(SectionsIn(output')) = Len(SectionsIn(output)) + 1
                    /\ output'[Len(output')].n = L
       /\ DeeperCleared
       /\ DeeperCleared']_vars

\* "+a", "++a", "+b": the part "b" cleared the chapter level.
C9_Witness ==
    /\ Len(input) = 5
    /\ input[3] = <<"+", "a">>
    /\ input[4] = <<"+", "+", "a">>
    /\ input[5] = <<"+", "b">>
    /\ sectionTypeToCount[0] = 2
    /\ sectionTypeToTitle[0] = <<"b">>
    /\ sectionTypeToCount[1] = 0
    /\ sectionTypeToTitle[1] = <<>>
    /\ Len(SectionsIn(output)) = 3

(***************************************************************************)
(* C10.  Table rectangularity: when a table is written, the first row      *)
(* whose number of '|'-separated fields differs from the first row's is    *)
(* fatal; the rows before it have been written, that row and the rows      *)
(* after it are not, and neither the end of the table nor the end of the   *)
(* document is written.  Rows of 3, 3 and 2 fields: fatal at the third     *)
(* row, two rows written.                                                  *)
(***************************************************************************)
C10_TableRectangular ==
    [][/\ (pc = "table" /\ pc' # "table" /\ tableRows # <<>>) =>
             LET n   == Len(tableRows)
                 bad == {i \in 1..n : Fields(tableRows[i]) # Fields(tableRows[1])}
                 k   == IF bad = {} THEN n + 1
                        ELSE CHOOSE i \in bad : \A j \in bad : i <= j
                 written_rows ==
                     [i \in 1..(k - 1) |->
                         Item("row", Fields(tableRows[i]), RowText(tableRows[i]), <<>>)]
                 begun == output
                            \o <<Item("tablehead", 0, <<>>, <<>>),
                                 Item("ltabulary", Fields(tableRows[1]), <<>>, <<>>)>>
                            \o written_rows
             IN  IF bad # {}
                 THEN pc' = "fatal" /\ output' = begun
                 ELSE /\ pc' # "fatal"
                      /\ SubSeq(output', 1, Len(begun) + 1)
                            = Append(begun, Item("endltabulary", 0, <<>>, <<>>))
       /\ pc = "fatal" => FALSE]_vars

\* Rows of 3, 3 and 2 fields: fatal with two rows written.
C10_Witness ==
    /\ pc = "fatal"
    /\ Len(tableRows) = 3
    /\ Fields(tableRows[1]) = 3
    /\ Fields(tableRows[2]) = 3
    /\ Fields(tableRows[3]) = 2
    /\ Len(SelectSeq(output, IsRowItem)) = 2
    /\ output[Len(output)].k = "row"

(***************************************************************************)
(* Vocabulary of the round trip: the constructs a file stands for, read    *)
(* off its lines without ConvertToTex.                                     *)
(***************************************************************************)
\* The title recorded at a level where no heading is open.
NoHeading == <<"none">>

\* The lines of `lines` that are not blank, trimmed.
RECURSIVE NonBlank(_)
NonBlank(lines) ==
    IF lines = <<>> THEN <<>>
    ELSE IF TrimSpace(Head(lines)) = <<>> THEN NonBlank(Tail(lines))
    ELSE <<TrimSpace(Head(lines))>> \o NonBlank(Tail(lines))

\* The place of the first fence line in `lines`, 0 if there is none.
FirstFence(lines) ==
    IF \E i \in 1..Len(lines) : TrimSpace(lines[i]) = kTableMarker
    THEN CHOOSE i \in 1..Len(lines) :
             /\ TrimSpace(lines[i]) = kTableMarker
             /\ \A j \in 1..(i - 1) : TrimSpace(lines[j]) # kTableMarker
    ELSE 0

\* The constructs of a table of the rows `rows`.
TableBlock(rows) ==
    <<Item("tablehead", 0, <<>>, <<>>),
      Item("ltabulary", Fields(rows[1]), <<>>, <<>>)>>
    \o [i \in 1..Len(rows) |-> Item("row", Fields(rows[i]), RowText(rows[i]), <<>>)]
    \o <<Item("endltabulary", 0, <<>>, <<>>), Item("tablefoot", 0, <<>>, <<>>)>>

\* The heading of `n` markers and title t, with the page break of a chapter.
HeadingBlock(n, t) ==
    Item(kSectionNames[n], n - 1, t,
         IF n = 2 THEN <<"cleardoublepage", "phantomsection">>
         ELSE <<"phantomsection">>)

\* The body blocks of the raw lines `lines`, in order; ok is false when the
\* body is not well formed: a marker that repeats the heading open at its
\* level, more than 8 markers, a table that is not closed, has no row or has
\* rows of different numbers of fields.  `open` is the title of the heading
\* open at each level.
RECURSIVE BodyBlocks(_, _)
BodyBlocks(lines, open) ==
    IF lines = <<>> THEN [ok |-> TRUE, out |-> <<>>]
    ELSE LET line == TrimSpace(Head(lines))
             n    == NumOfPlus(line)
             t    == SubSeq(line, n + 1, Len(line))
         IN  IF line = <<>> THEN BodyBlocks(Tail(lines), open)
             ELSE IF line = kTableMarker THEN
                 LET c    == FirstFence(Tail(lines))
                     rows == NonBlank(SubSeq(Tail(lines), 1, c - 1))
                     rest == BodyBlocks(SubSeq(Tail(lines), c + 1, Len(lines) - 1), open)
                 IN  IF c = 0 \/ rows = <<>>
                        \/ \E i \in 1..Len(rows) : Fields(rows[i]) # Fields(rows[1])
                     THEN [ok |-> FALSE, out |-> <<>>]
                     ELSE [ok |-> rest.ok, out |-> TableBlock(rows) \o rest.out]
             ELSE IF n >= 1 THEN
                 LET rest == BodyBlocks(Tail(lines),
                                 [i \in SectionTypes |->
                                     IF i = n - 1 THEN t
                                     ELSE IF i > n - 1 THEN NoHeading
                                     ELSE open[i]])
                 IN  IF n > Len(kSectionNames) \/ open[n - 1] = t
                     THEN [ok |-> FALSE, out |-> <<>>]
                     ELSE [ok |-> rest.ok, out |-> <<HeadingBlock(n, t)>> \o rest.out]
             ELSE LET rest == BodyBlocks(Tail(lines), open)
                  IN  [ok |-> rest.ok,
                       out |-> <<Item("par", 0, line, <<>>)>> \o rest.out]

\* The place in `lines` of the k-th line that is not blank, k = 1, 2.
NthNonBlank(lines, k) ==
    CHOOSE i \in 1..Len(lines) :
        /\ TrimSpace(lines[i]) # <<>>
        /\ Cardinality({j \in 1..i : TrimSpace(lines[j]) # <<>>}) = k

\* The whole document of a file: ok is false when it is not well formed.
Document(lines) ==
    IF Len(NonBlank(lines)) < 2 THEN [ok |-> FALSE, out |-> <<>>]
    ELSE LET a    == NthNonBlank(lines, 2)
             body == BodyBlocks(SubSeq(lines, a + 1, Len(lines)),
                                [i \in SectionTypes |-> NoHeading])
         IN  [ok  |-> body.ok,
              out |-> <<Item("preamble", 0, <<>>, <<>>),
                        Item("titlepage", 0, NonBlank(lines)[1], NonBlank(lines)[2]),
                        Item("tableofcontents", 0, <<>>, <<>>),
                        Item("newpage", 0, <<>>, <<>>)>>
                      \o body.out
                      \o <<Item("enddocument", 0, <<>>, <<>>)>>]

\* Line i of the body of a file lies between an opening fence and its
\* closing fence.
InTableAt(lines, i) ==
    LET a == NthNonBlank(lines, 2)
    IN  Cardinality({j \in (a + 1)..(i - 1) : TrimSpace(lines[j]) = kTableMarker}) % 2 = 1

\* Every heading of the file has a title and no line of its tables is blank.
AllTitled(lines) ==
    \A i \in 1..Len(lines) :
        LET line == TrimSpace(lines[i])
        IN  /\ NumOfPlus(line) >= 1 => NumOfPlus(line) < Len(line)
            /\ line = <<>> => ~InTableAt(lines, i)

(***************************************************************************)
(* C11.  As claimed: on a well-formed file (title, author, then markers    *)
(* that repeat no open heading, paragraphs, closed tables of uniform rows) *)
(* ConvertToTex ends without a fatal error and has written, after the     *)
(* preamble, the title page, the table of contents, one construct for each *)
(* body block in order, and the end of the document, and nothing else.     *)
(***************************************************************************)
C11_RoundTrip ==
    (pc \in {"done", "fatal"} /\ Document(input).ok) =>
        (pc = "done" /\ output = Document(input).out)

\* What does hold: the round trip of the files whose headings all have a
\* title and whose tables have no blank line.
C11_RoundTripTitled ==
    (pc \in {"done", "fatal"} /\ Document(input).ok /\ AllTitled(input)) =>
        (pc = "done" /\ output = Document(input).out)

\* A heading, a paragraph and a closed table of one row, all written.
C11_Witness ==
    /\ pc = "done"
    /\ Document(input).ok
    /\ AllTitled(input)
    /\ \E i \in 1..Len(output) : IsSectionItem(output[i])
    /\ \E i \in 1..Len(output) : output[i].k = "endltabulary"

(***************************************************************************)
(* Vocabulary of the comments.                                             *)
(***************************************************************************)
\* Every opening parenthesis of the text has a closing one later in it.
Closed(text) ==
    \A i \in 1..Len(text) :
        text[i] = "LP" => \E j \in (i + 1)..Len(text) : text[j] = "RP"

\* The first place of rune r in text after place i, 0 if there is none.
NextAfter(text, r, i) ==
    IF \E j \in (i + 1)..Len(text) : text[j] = r
    THEN CHOOSE j \in (i + 1)..Len(text) :
             text[j] = r /\ \A k \in (i + 1)..(j - 1) : text[k] # r
    ELSE 0

\* A closed text with each span from an opening parenthesis to the next
\* closing one replaced by a small-scale span holding what lies between
\* them, the text outside the spans as it is.
RECURSIVE Rewritten(_)
Rewritten(text) ==
    LET i == NextAfter(text, "LP", 0)
        j == NextAfter(text, "RP", i)
    IN  IF i = 0 \/ j = 0 THEN text
        ELSE SubSeq(text, 1, i - 1)
                \o <<"{scriptsize">> \o SubSeq(text, i + 1, j - 1) \o <<"}">>
                \o Rewritten(SubSeq(text, j + 1, Len(text)))

\* Each comment of a closed text holds some text, and no closing parenthesis
\* stands outside a comment before an opening one.
RECURSIVE Delimited(_)
Delimited(text) ==
    LET i == NextAfter(text, "LP", 0)
        j == NextAfter(text, "RP", i)
    IN  \/ i = 0
        \/ /\ j > i + 1
           /\ \A k \in 1..(i - 1) : text[k] # "RP"
           /\ Delimited(SubSeq(text, j + 1, Len(text)))

\* The step reads a paragraph of text `text`.
ReadsParagraph(text) ==
    /\ ReadsLine
    /\ pc = "run"
    /\ TexKind(TexCur, LineRead) = "paragraph"
    /\ text = LineRead

\* The step reads a heading of level L and text `text` that repeats no title.
ReadsHeading(L, text) ==
    /\ L \in SectionTypes
    /\ OpensSection(L, text)

\* The item the step writes last.
LastWritten == output'[Len(output')]

(***************************************************************************)
(* C12.  As claimed: a paragraph or heading text in which every opening    *)
(* parenthesis is followed later by a closing one is not fatal, and is     *)
(* written with each span from an opening to its closing parenthesis       *)
(* replaced by a small-scale span holding the text between them, the text  *)
(* outside the spans unchanged and in order.                               *)
(***************************************************************************)
C12_CommentsLegal ==
    [][/\ (ReadsParagraph(LineRead) /\ Closed(LineRead)) =>
             /\ pc' = "run"
             /\ output' = Append(output, Item("par", 0, Rewritten(LineRead), <<>>))
       /\ \A L \in SectionTypes :
             LET text == SubSeq(LineRead, L + 2, Len(LineRead))
             IN  (ReadsHeading(L, text) /\ Closed(text)) =>
                    /\ pc' = "run"
                    /\ Len(output') = Len(output) + 1
                    /\ LastWritten.k = kSectionNames[L + 1]
                    /\ LastWritten.t = Rewritten(text)]_vars

\* What does hold: the same for the texts whose comments each hold some text
\* and in which no closing parenthesis stands before the opening one of a
\* comment.
C12_CommentsRewritten ==
    [][/\ (ReadsParagraph(LineRead) /\ Closed(LineRead) /\ Delimited(LineRead)) =>
             /\ pc' = "run"
             /\ output' = Append(output, Item("par", 0, Rewritten(LineRead), <<>>))
       /\ \A L \in SectionTypes :
             LET text == SubSeq(LineRead, L + 2, Len(LineRead))
             IN  (ReadsHeading(L, text) /\ Closed(text) /\ Delimited(text)) =>
                    /\ pc' = "run"
                    /\ Len(output') = Len(output) + 1
                    /\ LastWritten.k = kSectionNames[L + 1]
                    /\ LastWritten.t = Rewritten(text)]_vars

(***************************************************************************)
(* C13.  A paragraph or heading line with an opening parenthesis that has  *)
(* no closing parenthesis after it before the end of the line is fatal,    *)
(* and nothing of the line is written to the output: no paragraph, no      *)
(* heading.                                                                *)
(***************************************************************************)
C13_UnterminatedComment ==
    [][/\ (ReadsParagraph(LineRead) /\ ~Closed(LineRead)) =>
             (pc' = "fatal" /\ output' = output)
       /\ \A L \in SectionTypes :
             LET text == SubSeq(LineRead, L + 2, Len(LineRead))
             IN  (ReadsHeading(L, text) /\ ~Closed(text)) =>
                    (pc' = "fatal" /\ output' = output)
       /\ pc = "fatal" => FALSE]_vars

\* A comment was written, then the heading '++（a' was fatal: the output ends
\* with the paragraph before it.
C13_Witness ==
    /\ pc = "fatal"
    /\ Len(input) = 4
    /\ input[3] = <<"LP", "a", "RP", "LP", "a", "RP">>
    /\ input[4] = <<"+", "+", "LP", "a">>
    /\ output[Len(output)] =
          Item("par", 0, <<"{scriptsize", "a", "}", "{scriptsize", "a", "}">>, <<>>)

(***************************************************************************)
(* Vocabulary of the heading levels.                                       *)
(***************************************************************************)
\* The number of '+' a line begins with.
Markers(line) ==
    CHOOSE n \in 0..Len(line) :
        /\ \A i \in 1..n : line[i] = "+"
        /\ n < Len(line) => line[n + 1] # "+"

\* The step reads a body line that begins with '+' outside a table.
ReadsMarkerLine ==
    /\ ReadsLine
    /\ pc = "run"
    /\ title # <<>>
    /\ author # <<>>
    /\ LineRead # <<>>
    /\ LineRead # kTableMarker
    /\ Markers(LineRead) >= 1

\* The names of the levels, in order.
LevelNames ==
    <<"part", "chapter", "section", "subsection", "subsubsection",
      "subsubsubsection", "paragraph", "subparagraph">>

HasPageBreak(item) == \E i \in 1..Len(item.u) : item.u[i] = "cleardoublepage"

(***************************************************************************)
(* C14.  A body line that begins with n '+': for 1 <= n <= 8 it is a       *)
(* heading of level n - 1, named part, chapter, section, subsection,       *)
(* subsubsection, subsubsubsection, paragraph, subparagraph in this order, *)
(* its title is the rest of the line, and a page break is written before   *)
(* it exactly when n = 2; for n > 8 the line is fatal, no heading is       *)
(* written and no counter and no title changes.                            *)
(***************************************************************************)
C14_HeadingLevels ==
    [][ReadsMarkerLine =>
          LET n    == Markers(LineRead)
              rest == SubSeq(LineRead, n + 1, Len(LineRead))
          IN  IF n > 8
              THEN /\ pc' = "fatal"
                   /\ UNCHANGED <<output, sectionTypeToCount, sectionTypeToTitle>>
              ELSE \/ /\ sectionTypeToTitle[n - 1] = rest
                      /\ UNCHANGED <<pc, output, sectionTypeToCount, sectionTypeToTitle>>
                   \/ /\ sectionTypeToTitle[n - 1] # rest
                      /\ pc' = "run"
                      /\ Len(output') = Len(output) + 1
                      /\ SubSeq(output', 1, Len(output)) = output
                      /\ LastWritten.k = LevelNames[n]
                      /\ LastWritten.n = n - 1
                      /\ LastWritten.t = rest
                      /\ HasPageBreak(LastWritten) <=> n = 2
                      /\ sectionTypeToTitle'[n - 1] = rest
                      /\ sectionTypeToCount'[n - 1] = sectionTypeToCount[n - 1] + 1]_vars

\* A heading of 8 markers is a subparagraph, a chapter has its page break,
\* and a line of 9 markers is fatal.
C14_Witness ==
    /\ pc = "fatal"
    /\ Len(input) = 5
    /\ input[3] = Pluses(8) \o <<"a">>
    /\ input[4] = <<"+", "+", "a">>
    /\ input[5] = Pluses(9) \o <<"a">>
    /\ output[Len(output) - 1] = Item("subparagraph", 7, <<"a">>, <<"phantomsection">>)
    /\ output[Len(output)] =
          Item("chapter", 1, <<"a">>, <<"cleardoublepage", "phantomsection">>)
    /\ sectionTypeToCount[1] = 1
    /\ sectionTypeToCount[7] = 0

(***************************************************************************)
(* C19.  As the README states, a heading has at most 7 '+': a body line    *)
(* that begins with more than 7 is not accepted as a heading, so no        *)
(* heading is written for it and no counter changes.                       *)
(***************************************************************************)
C19_AtMostSevenMarkers ==
    [][(ReadsMarkerLine /\ Markers(LineRead) > 7) =>
          /\ SectionsIn(output') = SectionsIn(output)
          /\ UNCHANGED sectionTypeToCount]_vars

(***************************************************************************)
(* C15.  As claimed: a line that is empty once trimmed is skipped in every *)
(* state, between the two fences of a table too: reading it changes        *)
(* neither the output nor the title, the author, the titles and counters   *)
(* of the sections, nor the rows accumulated.                              *)
(***************************************************************************)
C15_BlankAlwaysSkipped ==
    [][(ReadsLine /\ LineRead = <<>>) =>
          UNCHANGED <<pc, output, title, author, sectionTypeToCount,
                      sectionTypeToTitle, tableRows>>]_vars

\* What does hold: the same outside the tables.
C15_BlankSkippedOutsideTables ==
    [][(ReadsLine /\ LineRead = <<>> /\ pc # "table") =>
          UNCHANGED <<pc, output, title, author, sectionTypeToCount,
                      sectionTypeToTitle, tableRows>>]_vars

(***************************************************************************)
(* C20.  The end of the document is written exactly once, as the last      *)
(* output, when and only when the input has been exhausted without a fatal *)
(* error; after a fatal error (rows of different numbers of fields, too    *)
(* many markers, an invalid comment) the output holds no end of document.  *)
(***************************************************************************)
EndsIn(out) == {i \in 1..Len(out) : out[i].k = "enddocument"}

C20_DocumentEnd ==
    /\ pc = "done" => EndsIn(output) = {Len(output)}
    /\ pc # "done" => EndsIn(output) = {}
    /\ pc = "fatal" => EndsIn(output) = {}

\* The step that ends the input, and no other, writes the end of the document.
C20_EndWrittenAtEnd ==
    [][/\ (pc \in {"run", "table"} /\ ~ReadsLine /\ pc' # "fatal") =>
             (pc' = "done" /\ output'[Len(output')].k = "enddocument")
       /\ ReadsLine => pc' # "done"
       /\ pc \in {"done", "fatal"} => FALSE]_vars

\* The three fatal errors, each after something was written.
FatalByMarkers ==
    pc = "fatal" /\ Len(output) > 4 /\ Markers(TrimSpace(input[Len(input)])) > 8

FatalByComment ==
    pc = "fatal" /\ Len(output) > 4 /\ TrimSpace(input[Len(input)]) = <<"LP", "a">>

FatalByColumns ==
    /\ pc = "fatal"
    /\ Len(tableRows) = 2
    /\ Fields(tableRows[1]) # Fields(tableRows[2])
    /\ output[Len(output)].k = "row"

\* A table of a row of two fields and a row of one was fatal after its first
\* row was written.
C20_Witness == FatalByColumns

(***************************************************************************)
(* Vocabulary of the pipeline: what Format lets through unchecked.         *)
(***************************************************************************)
\* Line i of the body `body` is a row of a table: an odd number of fences
\* stands before it.
IsRowAt(body, i) ==
    /\ body[i] # kTableMarker
    /\ Cardinality({j \in 1..(i - 1) : body[j] = kTableMarker}) % 2 = 1

\* Lines i and j of the body are rows of the same table.
SameTable(body, i, j) ==
    /\ IsRowAt(body, i)
    /\ IsRowAt(body, j)
    /\ \A k \in 1..Len(body) :
          (k > i /\ k < j) \/ (k > j /\ k < i) => body[k] # kTableMarker

\* The lines hold a heading of more than 8 markers, a paragraph or heading
\* whose comments are not delimited, or a table whose rows differ in their
\* number of fields.  The first two lines are the title and the author.
Offending(lines) ==
    LET body == SubSeq(lines, 3, Len(lines))
    IN  \E i \in 1..Len(body) :
           \/ /\ ~IsRowAt(body, i)
              /\ body[i] # kTableMarker
              /\ \/ Markers(body[i]) > 8
                 \/ ~Delimited(SubSeq(body[i], Markers(body[i]) + 1, Len(body[i])))
           \/ \E j \in 1..Len(body) :
                 SameTable(body, i, j) /\ Fields(body[i]) # Fields(body[j])

Ended == proc \in {"returned", "exited"}

\* File i of the command line has been taken by the loop of main.
Attempted(i) == i <= Len(outcomes)

\* File i is a text file that cannot be opened, or whose output cannot be
\* created.
ResourceError(i) == args[i].txt /\ (~args[i].canOpen \/ ~args[i].canCreate)

(***************************************************************************)
(* C16.  As claimed: when one file of several hits a fatal structural      *)
(* error, only its conversion is aborted: every later file of the command  *)
(* line is still attempted.                                                *)
(***************************************************************************)
C16_LaterFilesAttempted ==
    Ended => \A i \in 1..Len(args) : Attempted(i)

\* What does hold: every file is attempted unless a file before it was fatal,
\* and no file after a fatal one is.
C16_AttemptedUntilFatal ==
    Ended =>
        \A i \in 1..Len(args) :
            Attempted(i) <=> \A j \in 1..(i - 1) : outcomes[j].outcome # "fatal"

(***************************************************************************)
(* C17.  As claimed: a file whose input cannot be opened or whose output   *)
(* cannot be created is skipped: no line of it is read or processed, so no *)
(* fatal structural error arises from it, and the batch goes on with the   *)
(* next file.                                                              *)
(***************************************************************************)
C17_ResourceErrorSkips ==
    \A i \in 1..Len(outcomes) :
        ResourceError(i) =>
            /\ outcomes[i].linesRead = 0
            /\ outcomes[i].outcome # "fatal"
            /\ Ended /\ i < Len(args) => Attempted(i + 1)

\* What does hold: the same for the files whose input cannot be opened.
C17_OpenFailureSkips ==
    \A i \in 1..Len(outcomes) :
        (args[i].txt /\ ~args[i].canOpen) =>
            /\ outcomes[i].linesRead = 0
            /\ outcomes[i].outcome = "openfail"
            /\ outcomes[i].content = <<>>
            /\ Ended /\ i < Len(args) => Attempted(i + 1)

(***************************************************************************)
(* Vocabulary of the point of detection.                                   *)
(***************************************************************************)
\* The first row of the table that line i of `lines` is a row of: the line
\* after the last fence before i.
FirstRowOf(lines, i) ==
    LET f == CHOOSE j \in 1..(i - 1) :
                 /\ TrimSpace(lines[j]) = kTableMarker
                 /\ \A k \in (j + 1)..(i - 1) : TrimSpace(lines[k]) # kTableMarker
    IN  TrimSpace(lines[f + 1])

\* Line i of `lines` is a row of a table with another number of fields than
\* the first row of the table.
RowViolation(lines, i) ==
    /\ Len(NonBlank(lines)) >= 2
    /\ i > NthNonBlank(lines, 2)
    /\ InTableAt(lines, i)
    /\ TrimSpace(lines[i]) # kTableMarker
    /\ Fields(TrimSpace(lines[i])) # Fields(FirstRowOf(lines, i))

\* Line i of `lines` is a heading of more than 8 markers, or a heading or a
\* paragraph with an invalid comment.
LineViolation(lines, i) ==
    LET line == TrimSpace(lines[i])
    IN  /\ Len(NonBlank(lines)) >= 2
        /\ i > NthNonBlank(lines, 2)
        /\ ~InTableAt(lines, i)
        /\ line # <<>>
        /\ line # kTableMarker
        /\ \/ Markers(line) > 8
           \/ ~Delimited(SubSeq(line, Markers(line) + 1, Len(line)))

Violations(lines) ==
    {i \in 1..Len(lines) : RowViolation(lines, i) \/ LineViolation(lines, i)}

\* The first line of `lines` with a violation.
FirstViolation(lines) ==
    CHOOSE i \in Violations(lines) : \A j \in Violations(lines) : i <= j

(***************************************************************************)
(* C21.  As claimed: a fatal violation on line k of the input (a row with  *)
(* another number of fields than the first row, a heading of more than 8   *)
(* markers, a comment that is not closed) is detected at the earliest      *)
(* point: when the fatal error is raised no line after line k has been     *)
(* read.                                                                   *)
(***************************************************************************)
C21_EarliestDetection ==
    pc = "fatal" =>
        /\ Violations(input) # {}
        /\ Len(input) = FirstViolation(input)

(***************************************************************************)
(* C21, amended.  A heading of more than 8 markers and an invalid comment  *)
(* are fatal as their line is read: no line after it has been read.  A row *)
(* with another number of fields than the first row is not looked at as it *)
(* is read: the rows of a table are read up to its closing fence, or to    *)
(* the end of input, and the violation is fatal then, when the table is    *)
(* written; no line after the closing fence has been read.                 *)
(***************************************************************************)
C21_DetectionPoint ==
    [][/\ (pc # "fatal" /\ pc' = "fatal") =>
             /\ Violations(input') # {}
             /\ LET k == FirstViolation(input')
                IN  IF RowViolation(input', k)
                    THEN /\ \A j \in k..(Len(input') - 1) :
                               TrimSpace(input'[j]) # kTableMarker
                         /\ ~ReadsLine \/ LineRead = kTableMarker
                    ELSE ReadsLine /\ Len(input') = k
       /\ (pc = "table" /\ ReadsLine /\ LineRead # kTableMarker) => pc' = "table"]_vars

\* A row of two fields, a row of one, and the closing fence read after it:
\* fatal with the fence as the last line read.
C21_Witness ==
    /\ pc = "fatal"
    /\ Len(input) = 6
    /\ input[4] = <<"a", "|", "a">>
    /\ input[5] = <<"a">>
    /\ input[6] = kTableMarker
    /\ FirstViolation(input) = 5

(***************************************************************************)
(* Vocabulary of the lines written as they are.                            *)
(***************************************************************************)
\* The step reads a line that Format writes as it is: the first non-blank
\* line, the second, a fence, a line read in table mode or one beginning
\* with '+'.
ReadsTitle == ReadsLine /\ LineRead # <<>> /\ title = <<>>

ReadsAuthor == ReadsLine /\ LineRead # <<>> /\ title # <<>> /\ author = <<>>

ReadsBody == ReadsLine /\ LineRead # <<>> /\ title # <<>> /\ author # <<>>

ReadsFenceLine == ReadsBody /\ LineRead = kTableMarker

ReadsVerbatimLine ==
    /\ ReadsBody
    /\ LineRead # kTableMarker
    /\ inTable \/ LineRead[1] = "+"

(***************************************************************************)
(* C22.  The first two non-blank lines (title, author), every fence line,  *)
(* every line read in table mode and every line beginning with '+' are     *)
(* written to the output identical to the trimmed input line when no fatal *)
(* error fires, and leave the in-quote flag, the is-space flag, the        *)
(* could-end flag and the pending buffer unchanged; a fence line changes   *)
(* only the in-table flag; the title and the author are taken whatever     *)
(* their content.                                                          *)
(***************************************************************************)
C22_WrittenAsRead ==
    [][(ReadsTitle \/ ReadsAuthor \/ ReadsFenceLine \/ ReadsVerbatimLine) =>
          /\ UNCHANGED <<inQuote, isSpace, couldEnd, buffer>>
          /\ pc' # "fatal" => output' = Append(output, LineRead)
          /\ inTable' = IF ReadsFenceLine THEN ~inTable ELSE inTable
          /\ ReadsTitle => title' = LineRead /\ author' = author
          /\ ReadsAuthor => author' = LineRead /\ title' = title
          /\ ~(ReadsTitle \/ ReadsAuthor) => UNCHANGED <<title, author>>]_vars

\* A fence taken for the title, a '+' line taken for the author, then a fence
\* and a row: the four lines are in the output as they were read.
C22_Witness ==
    /\ pc = "run"
    /\ title = kTableMarker
    /\ author = <<"+", "a">>
    /\ inTable
    /\ output = <<kTableMarker, <<"+", "a">>, kTableMarker, <<"a">>>>
    /\ buffer = <<>>

(***************************************************************************)
(* Vocabulary of the terminal marks.                                       *)
(***************************************************************************)
\* Full stop, question mark, exclamation mark, closing parenthesis, closing
\* guillemet-style bracket.
FiveMarks == {"DOT", "QM", "EM", "RP", "RB"}

\* The five marks and the closing quote.
SixMarks == FiveMarks \cup {endQuote}

\* The rune most recently handed to the buffer is one of `marks`.
LastEmittedIn(w, marks) == w # <<>> /\ w[Len(w)] \in marks

\* The step scans a line and prints the buffer at the end of the line.
FlushesAtEndOfLine ==
    /\ ReadsBody
    /\ written' # written
    /\ buffer' = <<>>
    /\ output' # output

(***************************************************************************)
(* C23.  As claimed: the could-end flag is true only if the most recently  *)
(* emitted character is one of the five terminal marks (full stop,         *)
(* question mark, exclamation mark, closing parenthesis, closing           *)
(* guillemet-style bracket); a buffer whose most recently emitted          *)
(* character is any other glyph is never flushed at the end of a line.     *)
(***************************************************************************)
C23_FiveTerminalMarks ==
    [][/\ couldEnd' => LastEmittedIn(written', FiveMarks)
       /\ FlushesAtEndOfLine => LastEmittedIn(written', FiveMarks)]_vars

(***************************************************************************)
(* C23, amended.  The terminal marks are six, the five of the claim and    *)
(* the closing quote: the could-end flag is true only if the most recently *)
(* emitted character is one of the six, and a buffer whose most recently   *)
(* emitted character is any other glyph is never flushed at the end of a   *)
(* line.                                                                   *)
(***************************************************************************)
C23_SixTerminalMarks ==
    [][/\ couldEnd' => LastEmittedIn(written', SixMarks)
       /\ FlushesAtEndOfLine =>
             /\ LastEmittedIn(written', SixMarks)
             /\ LastWritten[Len(LastWritten)] = written'[Len(written')]]_vars

\* A paragraph that ends in a closing quote has been flushed.
C23_Witness ==
    /\ pc = "run"
    /\ couldEnd
    /\ buffer = <<>>
    /\ Len(output) = 3
    /\ output[3] = <<startQuote, "a", "DOT", endQuote>>
    /\ written[Len(written)] = endQuote

(***************************************************************************)
(* Vocabulary of suppression.                                              *)
(***************************************************************************)
\* Heading i of `out` is a heading of level L that no later heading of a
\* shallower level has closed.
OpenAt(out, i, L) ==
    /\ IsSectionItem(out[i])
    /\ out[i].n = L
    /\ \A j \in (i + 1)..Len(out) : IsSectionItem(out[j]) => out[j].n >= L

\* A heading of level L with title t has been written and is open.
WrittenOpen(out, L, t) ==
    \E i \in 1..Len(out) : OpenAt(out, i, L) /\ out[i].t = t

\* No heading of level L is open: none written since the start of input or
\* since the last heading of a shallower level.
FreshLevel(out, L) == ~\E i \in 1..Len(out) : OpenAt(out, i, L)

\* The title of the heading of level L written last, where one is open.
LastOpenTitle(out, L) ==
    LET i == CHOOSE i \in 1..Len(out) :
                 /\ OpenAt(out, i, L)
                 /\ \A j \in (i + 1)..Len(out) : ~OpenAt(out, j, L)
    IN  out[i].t

\* The step reads a section marker of level L outside a table.
ReadsMarkerOfLevel(L) ==
    /\ ReadsMarkerLine
    /\ Markers(LineRead) = L + 1

(***************************************************************************)
(* C24.  As claimed: a section marker of level L is suppressed only if a   *)
(* heading with the same title was written at level L earlier and no       *)
(* heading of a shallower level has been opened since; the first marker    *)
(* read at a level after the start of input, or after the level was reset  *)
(* by a shallower section, is always written and counted, whatever its     *)
(* title, the empty title included.                                        *)
(***************************************************************************)
C24_SuppressedOnlyIfOpen ==
    [][\A L \in SectionTypes :
          LET t == Slice(LineRead, L + 1, Len(LineRead))
          IN  ReadsMarkerOfLevel(L) =>
                 /\ output' = output => WrittenOpen(output, L, t)
                 /\ FreshLevel(output, L) =>
                       /\ Len(SectionsIn(output')) = Len(SectionsIn(output)) + 1
                       /\ sectionTypeToCount'[L] = sectionTypeToCount[L] + 1]_vars

(***************************************************************************)
(* C24 for markers with a title.  A section marker of level L with a       *)
(* non-empty title is suppressed only if a heading of level L with this    *)
(* title is open, and is written and counted when no heading of level L is *)
(* open; a marker with an empty title is suppressed exactly when no        *)
(* heading of level L is open or the one written last has an empty title.  *)
(***************************************************************************)
C24_TitledSuppressedOnlyIfOpen ==
    [][\A L \in SectionTypes :
          LET t == Slice(LineRead, L + 1, Len(LineRead))
          IN  ReadsMarkerOfLevel(L) =>
                 IF t # <<>>
                 THEN /\ output' = output => WrittenOpen(output, L, t)
                      /\ FreshLevel(output, L) =>
                            /\ Len(SectionsIn(output')) = Len(SectionsIn(output)) + 1
                            /\ sectionTypeToCount'[L] = sectionTypeToCount[L] + 1
                 ELSE output' = output <=>
                          \/ FreshLevel(output, L)
                          \/ LastOpenTitle(output, L) = <<>>]_vars

\* "+" with an empty title as the first marker of the file, then "+a": one
\* heading, the part "a" counted as the first.
C24_EmptyTitleAtFreshLevel ==
    /\ pc = "run"
    /\ Len(input) = 4
    /\ input[3] = <<"+">>
    /\ input[4] = <<"+", "a">>
    /\ Len(SectionsIn(output)) = 1
    /\ sectionTypeToCount[0] = 1

(***************************************************************************)
(* Vocabulary of termination.                                              *)
(***************************************************************************)
\* The loop has been left: by the end of input or of the text, or by a fatal
\* error.
Terminated == pc \in {"done", "fatal"}

\* The step is an iteration of the loop of ReplaceCommentWithScript that
\* neither fails nor leaves the loop.
IteratesOn == stage = "replace" /\ pc = "run" /\ pc' = "run"

(***************************************************************************)
(* C25.  On every finite input each stage terminates, by reaching the end  *)
(* of input or by a fatal structural error; the loop of                    *)
(* ReplaceCommentWithScript terminates on every text, and each of its      *)
(* iterations that does not fail or leave the loop strictly shortens the   *)
(* text that is left.                                                      *)
(***************************************************************************)
C25_Terminates ==
    /\ <>Terminated
    /\ [][IteratesOn => Len(textLeft') < Len(textLeft)]_vars

(***************************************************************************)
(* The loop of ReplaceCommentWithScript, taken one iteration at a time,    *)
(* ends as the function does: fatal on the same texts, and with the same   *)
(* text written otherwise.                                                 *)
(***************************************************************************)
C25_LoopIsReplaceFrom ==
    (stage = "replace" /\ Terminated) =>
        LET r == ReplaceCommentWithScript(input[1])
        IN  /\ r.ok <=> pc = "done"
            /\ r.text = buffer

\* Two comments rewritten in two iterations, nothing left of the text.
C25_Witness ==
    /\ stage = "replace"
    /\ pc = "done"
    /\ input[1] = <<"LP", "a", "RP", "LP", "a", "RP">>
    /\ textLeft = <<>>
    /\ buffer = <<"{scriptsize", "a", "}", "{scriptsize", "a", "}">>

\* Format at the end of a file of MaxStageLines lines, and ConvertToTex.
C25_FormatEnds ==
    stage = "format" /\ Terminated /\ Len(input) = MaxStageLines

C25_TexEnds ==
    stage = "tex" /\ pc = "done" /\ Len(input) = MaxStageLines

=============================================================================
